---- MODULE Spec2Model ----
(***************************************************************************)
(* The dependency-injection Container of elyx                              *)
(* (src/elyx/src/elyx/container/container.py), its event Dispatcher        *)
(* (src/elyx/src/elyx/events/dispatcher.py) and the Application built on   *)
(* the container (src/elyx/src/elyx/foundation/application.py) as a state  *)
(* machine.                                                                *)
(*                                                                         *)
(* Keys are the normalized strings of Str.class_to_string: a class and the *)
(* string of its qualified name are the same key, but resolve() still      *)
(* sees whether the caller passed a type (auto-wiring) or a string.        *)
(* Objects carry an identity `id`: two objects are the same reference iff  *)
(* they are equal records.                                                 *)
(***************************************************************************)
EXTENDS Integers, Sequences, FiniteSets, TLC

\* ---------------------------------------------------------------- bounds
\* Number of container operations in one run.
MaxOps == 5
\* Nested make() frames the interpreter allows before RecursionError.
MaxDepth == 4
\* callers of make() that may run with their steps interleaved
MaxCallers == 3

\* -------------------------------------------------------------- universe
\* Plain string identifiers used as abstracts and alias names.
StrKeys == {"K", "X"}
\* Classes: G has a no-argument constructor; W(stub: G, default: str = ..);
\* P(q: Q) and Q(p: P) need each other. IC is an abstract class with an
\* abstract method; D(impl: IC); N(inner: D); O(no_default: G,
\* default: Optional[G] = None); Opt(inner: IC = None);
\* M(first, stub: G, last) has two parameters without annotation or default.
\* Meth has no constructor of its own and a method, method(dependency: G).
Classes == {"G", "W", "P", "Q", "I", "Impl", "IC", "D", "N", "O", "Opt", "M",
            "Meth"}
\* Factory closures: fEcho = lambda app, **kwargs: kwargs;
\* fNest = lambda app, **kwargs: app.make("X"); fNew = lambda: G().
Factories == {"fEcho", "fNest", "fNew"}
Names == StrKeys \cup Classes
\* The key fNest resolves.
NestTarget == "X"

\* kwargs are sets of <<name, value>> pairs.
NoKwargs == {}
SomeKwargs == {<<"default", "x">>}

\* Errors an operation can end with ("" is success).
ENF == "EntryNotFoundException"
RecErr == "RecursionError"
TypeErr == "TypeError"
ValErr == "ValueError"
AttrErr == "AttributeError"
\* The exception a callback raises, whatever its type.
CallbackErr == "CallbackError"

\* Objects.
NoneVal == [id |-> 0, cls |-> "None", lit |-> "", kw |-> {}, deps |-> {}]
Literal(s) == [id |-> 0, cls |-> "str", lit |-> s, kw |-> {}, deps |-> {}]
External(s) == [id |-> 0, cls |-> "object", lit |-> s, kw |-> {}, deps |-> {}]
Obj(id, cls, kw, deps) == [id |-> id, cls |-> cls, lit |-> "", kw |-> kw, deps |-> deps]

\* Constructor signatures, in declaration order (self left out).
\* ann = "" is no annotation, "str" a builtin annotation.
CtorParams(cls) ==
  CASE cls = "W" -> << [name |-> "stub", ann |-> "G", hasDefault |-> FALSE],
                       [name |-> "default", ann |-> "str", hasDefault |-> TRUE] >>
    [] cls = "P" -> << [name |-> "q", ann |-> "Q", hasDefault |-> FALSE] >>
    [] cls = "Q" -> << [name |-> "p", ann |-> "P", hasDefault |-> FALSE] >>
    [] cls = "D" -> << [name |-> "impl", ann |-> "IC", hasDefault |-> FALSE] >>
    [] cls = "N" -> << [name |-> "inner", ann |-> "D", hasDefault |-> FALSE] >>
    [] cls = "O" -> << [name |-> "no_default", ann |-> "G", hasDefault |-> FALSE],
                       [name |-> "default", ann |-> "G", hasDefault |-> TRUE] >>
    [] cls = "Opt" -> << [name |-> "inner", ann |-> "IC", hasDefault |-> TRUE] >>
    [] cls = "M" -> << [name |-> "first", ann |-> "", hasDefault |-> FALSE],
                       [name |-> "stub", ann |-> "G", hasDefault |-> FALSE],
                       [name |-> "last", ann |-> "", hasDefault |-> FALSE] >>
    [] OTHER -> << >>

\* Signatures of the methods call() is given (self left out).
MethodParams(cls, method) ==
  IF cls = "Meth" /\ method = "method"
    THEN << [name |-> "dependency", ann |-> "G", hasDefault |-> FALSE] >>
    ELSE << >>
HasMethod(cls, method) == cls = "Meth" /\ method = "method"

\* inspect.isabstract: IC declares an abstract method; I derives from ABC
\* without one and is instantiable.
IsAbstract(cls) == cls = "IC"

\* callable(concrete): classes and closures are callable, strings are not.
IsCallable(concrete) == concrete \in Classes \cup Factories

\* instance.__class__.__mro__ as keys: Impl derives from I; `object` and
\* ABC end every chain and are keys nothing is registered under.
Mro(cls) == IF cls = "Impl" THEN << "Impl", "I" >> ELSE << cls >>

\* Function helpers.
Put(f, k, v) == [x \in DOMAIN f \cup {k} |-> IF x = k THEN v ELSE f[x]]
Drop(f, k) == [x \in DOMAIN f \ {k} |-> f[x]]
Empty == [x \in {} |-> NoneVal]

VARIABLES
  bindings,             \* _bindings: key -> [concrete, shared, scoped]
  instances,            \* _instances: key -> object
  aliases,              \* _aliases: alias -> key
  resolved,             \* keys of _resolved
  scoped_instances,     \* _scoped_instances: key -> object
  rebinding_callbacks,  \* keys that have a rebinding callback
  environment_resolver, \* "none", or what the installed predicate answers
  contextual,           \* the when().needs().give() requests made so far
  nextId,               \* identity of the next object created
  stale,                \* cache entries written before the key's last bind
  invalidated,          \* keys whose cached instance a bind has dropped
  made,                 \* key -> result of its last parameterless make
  intact,               \* keys bound by bind and not re-registered since
  callbacks,            \* the resolving-callback registries
  fired,                \* callbacks fired and builds done by the last call
  ops,                  \* operations the run may still perform
  last,                 \* the last operation and its outcome
  listeners,            \* Dispatcher.listeners: event name -> listeners
  wildcards,            \* Dispatcher.wildcards: the catch-all listeners
  deferring_events,     \* Dispatcher.deferring_events
  deferred_events,      \* Dispatcher.deferred_events: (event, payload, halt)
  events_to_defer,      \* Dispatcher.events_to_defer
  frames,               \* the locals of the defer() calls still running
  delivered,            \* listener invocations so far, in order
  payloads,             \* payloads handed to dispatch so far
  response,             \* what the last dispatch returned
  is_booted,            \* Application._booted
  booting_callbacks,    \* Application._booting_callbacks
  booted_callbacks,     \* Application._booted_callbacks
  invoked_callbacks,    \* boot callbacks invoked so far, in order
  service_providers,    \* Application._service_providers: key -> provider
  provider_log,         \* providers constructed and register() calls made
  registered,           \* what the last Application.register returned
  threads               \* callers of make() whose steps interleave

containerVars ==
  << bindings, instances, aliases, resolved, scoped_instances,
     rebinding_callbacks, environment_resolver, contextual, nextId,
     stale, invalidated, made, intact, callbacks, fired >>

dispatcherVars ==
  << listeners, wildcards, deferring_events, deferred_events,
     events_to_defer, frames, delivered, payloads, response >>

applicationVars ==
  << is_booted, booting_callbacks, booted_callbacks, invoked_callbacks,
     service_providers, provider_log, registered >>

vars == << containerVars, ops, last, dispatcherVars, applicationVars, threads >>

\* ------------------------------------------------------------- container
\* The part of the container resolve() reads and writes, as one record.
Cont == [bindings |-> bindings, instances |-> instances, aliases |-> aliases,
         resolved |-> resolved, scoped_instances |-> scoped_instances,
         environment_resolver |-> environment_resolver,
         nextId |-> nextId, stale |-> stale,
         callbacks |-> callbacks, fired |-> << >>, failed |-> FALSE]

is_alias(c, name) == name \in DOMAIN c.aliases

\* get_alias: follows the alias table; a chain longer than the number of
\* names is a cycle, on which the recursion never ends (RecursionError).
RECURSIVE get_alias_from(_, _, _)
get_alias_from(c, abstract, hops) ==
  IF abstract \in DOMAIN c.aliases
    THEN IF hops = 0 THEN RecErr
         ELSE get_alias_from(c, c.aliases[abstract], hops - 1)
    ELSE abstract

get_alias(c, abstract) == get_alias_from(c, abstract, Cardinality(Names))

bound(c, abstract) ==
  \/ abstract \in DOMAIN c.bindings
  \/ abstract \in DOMAIN c.instances
  \/ abstract \in DOMAIN c.scoped_instances
  \/ is_alias(c, abstract)

is_shared(c, abstract) ==
  \/ abstract \in DOMAIN c.instances
  \/ (abstract \in DOMAIN c.bindings /\ c.bindings[abstract].shared)

\* has(id).
has(c, id) == bound(c, id)

\* resolved(abstract): the alias-chased key is marked resolved or has a
\* singleton-cache entry.
resolved_of(c, abstract) ==
  LET key == IF is_alias(c, abstract) THEN get_alias(c, abstract) ELSE abstract
  IN key \in c.resolved \/ key \in DOMAIN c.instances

is_scoped(c, abstract) ==
  \/ abstract \in DOMAIN c.scoped_instances
  \/ (abstract \in DOMAIN c.bindings /\ c.bindings[abstract].scoped)

\* ----------------------------------------------------------------- build
\* Outcome of a resolution or build: the container afterwards, the object,
\* the error ("" for none) and how the object was obtained.
\* msg is the text of the exception, as the sequence of its parts.
Raised(c, err, msg) ==
  [c |-> c, ret |-> NoneVal, err |-> err, how |-> "error", msg |-> msg]
Failed(c, err) == Raised(c, err, << >>)
Done(c, ret, how) ==
  [c |-> c, ret |-> ret, err |-> "", how |-> how, msg |-> << >>]

\* The texts of the EntryNotFoundExceptions the container raises.
NotFoundMsg(id) == << "Entry not found", id >>
NotInstantiableMsg(cls) == << "is not instantiable", cls >>
UnresolvableMsg_Anonymous(param, cls) == << "Unresolvable dependency" >>
UnresolvableMsg(param, cls) == << "Unresolvable dependency", param, cls >>
WhileBuilding_Bare(msg, concrete) == msg
WhileBuilding(msg, concrete) == msg \o << "while building", concrete >>

\* The explicit value given for a parameter, as the object passed on.
KwargValue(kwargs, name) == Literal((CHOOSE p \in kwargs : p[1] = name)[2])
HasKwarg(kwargs, name) == \E p \in kwargs : p[1] = name

\* The kwargs of the make() that _build issues for a typed parameter:
\* self.make(type_to_resolve) passes none.
NestedKwargs_Leak(kwargs) == kwargs
NestedKwargs(kwargs) == NoKwargs

\* resolve() looks at a cache only "if not kwargs".
CacheLookup_Always(kwargs) == TRUE
CacheLookup(kwargs) == kwargs = NoKwargs

\* resolve() writes a cache only "if not kwargs".
CacheWrite_Always(kwargs) == TRUE
CacheWrite(kwargs) == kwargs = NoKwargs

\* The scoped cache serves a key whenever it holds it; the environment
\* resolver is not consulted.
ScopedHit_Env(c, key) ==
  key \in DOMAIN c.scoped_instances /\ c.environment_resolver = "holds"
ScopedHit(c, key) == key \in DOMAIN c.scoped_instances

\* The key under which resolve() looks up and caches: the alias chased to
\* its end.
CanonicalKey_NoChase(c, name) == name
CanonicalKey(c, name) == get_alias(c, name)

\* resolve() sets _resolved[key] after every build, whatever the lifetime.
MarkResolved_SharedOnly(c, key) ==
  IF is_shared(c, key) THEN [c EXCEPT !.resolved = @ \cup {key}] ELSE c
MarkResolved(c, key) == [c EXCEPT !.resolved = @ \cup {key}]

\* One entry of the log of a call: a callback `cb` of the list registered
\* under `scope` ("*" for a global list) fired in phase `ev` for the key
\* being resolved and its instance, or (ev "build", "built") the concrete
\* of `key` started or finished building; depth tells nested calls apart.
Event(ev, scope, cb, key, obj, depth) ==
  [ev |-> ev, scope |-> scope, cb |-> cb, key |-> key, obj |-> obj,
   depth |-> depth]

\* The position of the first callback of the list that raises, 0 if none.
FirstRaising(c, list) ==
  IF \E i \in 1..Len(list) : list[i] \in c.callbacks.raising
    THEN CHOOSE i \in 1..Len(list) :
           /\ list[i] \in c.callbacks.raising
           /\ \A j \in 1..(i - 1) : list[j] \notin c.callbacks.raising
    ELSE 0

\* The loop of _fire_callback_array up to the callback at position n that
\* raises (n = 0: the whole list); `failed` is the exception in flight.
fire_until(c, list, n, ev, scope, key, obj, depth) ==
  [c EXCEPT !.fired =
              @ \o [i \in 1..(IF n = 0 THEN Len(list) ELSE n) |->
                      Event(ev, scope, list[i], key, obj, depth)],
            !.failed = n # 0]

\* _fire_callback_array: every callback of the list, in list order; an
\* exception of a callback ends the loop and everything after it.
fire_callback_array(c, list, ev, scope, key, obj, depth) ==
  IF c.failed THEN c
  ELSE fire_until(c, list, FirstRaising(c, list), ev, scope, key, obj, depth)

\* The exception of a callback leaves the operation that fired it.
callbacks_fired(c, ret, how) ==
  IF c.failed
    THEN Failed([c EXCEPT !.failed = FALSE], CallbackErr)
    ELSE Done(c, ret, how)

\* The list registered under a key, empty when there is none.
ListOf(registry, key) == IF key \in DOMAIN registry THEN registry[key] ELSE << >>

\* The two lists of the before-resolving phase, the key's list first.
fire_before_resolving_callbacks_KeyFirst(c, abstract, depth) ==
  fire_callback_array(
    fire_callback_array(c,
      ListOf(c.callbacks.before_resolving_callbacks, abstract),
      "before", abstract, abstract, NoneVal, depth),
    c.callbacks.global_before_resolving_callbacks,
    "before", "*", abstract, NoneVal, depth)

\* _fire_before_resolving_callbacks: the global list, then the key's.
fire_before_resolving_callbacks(c, abstract, depth) ==
  fire_callback_array(
    fire_callback_array(c, c.callbacks.global_before_resolving_callbacks,
                        "before", "*", abstract, NoneVal, depth),
    ListOf(c.callbacks.before_resolving_callbacks, abstract),
    "before", abstract, abstract, NoneVal, depth)

\* "Skip if we already fired for this abstract": a base whose key is the
\* key being resolved has fired with the key's own list.
SkipBase_Never(base, abstract) == FALSE
SkipBase(base, abstract) == base = abstract

\* The loop of _fire_resolving_callbacks over the instance's __mro__ from
\* position i on: a base other than the key fires its own list.
RECURSIVE fire_for_bases(_, _, _, _, _, _)
fire_for_bases(c, mro, i, abstract, instance, depth) ==
  IF i > Len(mro) THEN c
  ELSE fire_for_bases(
         IF ~SkipBase(mro[i], abstract)
           THEN fire_callback_array(c,
                  ListOf(c.callbacks.resolving_callbacks, mro[i]),
                  "resolving", mro[i], abstract, instance, depth)
           ELSE c,
         mro, i + 1, abstract, instance, depth)

\* _fire_resolving_callbacks: the global list, the key's list, then the
\* lists of the instance's class and its ancestors.
fire_resolving_callbacks(c, abstract, instance, depth) ==
  fire_for_bases(
    fire_callback_array(
      fire_callback_array(c, c.callbacks.global_resolving_callbacks,
                          "resolving", "*", abstract, instance, depth),
      ListOf(c.callbacks.resolving_callbacks, abstract),
      "resolving", abstract, abstract, instance, depth),
    Mro(instance.cls), 1, abstract, instance, depth)

\* _fire_after_resolving_callbacks: the global list, then the key's.
fire_after_resolving_callbacks(c, abstract, instance, depth) ==
  fire_callback_array(
    fire_callback_array(c, c.callbacks.global_after_resolving_callbacks,
                        "after", "*", abstract, instance, depth),
    ListOf(c.callbacks.after_resolving_callbacks, abstract),
    "after", abstract, abstract, instance, depth)

\* The start and the end of building a key's concrete, in the log.
Mark(c, ev, key, obj, depth) ==
  [c EXCEPT !.fired = Append(@, Event(ev, "", 0, key, obj, depth))]

RECURSIVE resolve_events(_, _, _, _, _, _)
RECURSIVE build(_, _, _, _)
RECURSIVE build_params(_, _, _, _, _, _)

\* What _build does with the outcome r of the nested make for parameter
\* p: the instance becomes the dependency; an EntryNotFoundException is
\* swallowed when p has a default and re-raised otherwise; any other
\* exception leaves _build.
param_resolved(r, p, concrete, kwargs, depth, i, deps) ==
  IF r.err = ""
    THEN build_params(r.c, concrete, kwargs, depth, i + 1,
                      deps \cup {<<p.name, r.ret>>})
  ELSE IF r.err = ENF /\ p.hasDefault
    THEN build_params(r.c, concrete, kwargs, depth, i + 1, deps)
  ELSE IF r.err = ENF
    THEN Raised(r.c, ENF, WhileBuilding(r.msg, concrete))
  ELSE Failed(r.c, r.err)

\* _build: "For parameters with default values, only resolve if the type
\* is explicitly bound."
UseDefault_Never(c, p) == FALSE
UseDefault(c, p) == p.ann # "" /\ p.hasDefault /\ ~bound(c, p.ann)

\* One pass of _build's loop, for the constructor parameter p at index i.
build_param(c, p, concrete, kwargs, depth, i, deps) ==
  IF HasKwarg(kwargs, p.name)
    THEN build_params(c, concrete, kwargs, depth, i + 1,
                      deps \cup {<<p.name, KwargValue(kwargs, p.name)>>})
  ELSE IF UseDefault(c, p)
    THEN build_params(c, concrete, kwargs, depth, i + 1, deps)
  ELSE IF p.ann \in Classes
    THEN param_resolved(
           resolve_events(c, p.ann, TRUE, TRUE, NestedKwargs(kwargs), depth - 1),
           p, concrete, kwargs, depth, i, deps)
  ELSE IF p.hasDefault
    THEN build_params(c, concrete, kwargs, depth, i + 1, deps)
  ELSE Raised(c, ENF, UnresolvableMsg(p.name, concrete))

\* _build's loop over the constructor parameters from index i on; deps is
\* the `dependencies` dict so far.
build_params(c, concrete, kwargs, depth, i, deps) ==
  IF i > Len(CtorParams(concrete))
    THEN Done([c EXCEPT !.nextId = @ + 1],
              Obj(c.nextId, concrete, {}, deps), "built")
    ELSE build_param(c, CtorParams(concrete)[i], concrete, kwargs, depth, i,
                     deps)

\* What the closure that resolves another key returns: that key's object.
nest_result(r) ==
  IF r.err = "" THEN Done(r.c, r.ret, "built") ELSE Raised(r.c, r.err, r.msg)

\* _build(concrete, **kwargs).
build(c, concrete, kwargs, depth) ==
  IF concrete \in Classes /\ IsAbstract(concrete)
    THEN Raised(c, ENF, NotInstantiableMsg(concrete))
  ELSE IF concrete = "fEcho"
    THEN Done([c EXCEPT !.nextId = @ + 1],
              Obj(c.nextId, "dict", kwargs, {}), "built")
  ELSE IF concrete = "fNest"
    THEN nest_result(
           resolve_events(c, NestTarget, TRUE, FALSE, NoKwargs, depth - 1))
  ELSE IF concrete = "fNew"
    \* concrete(self) raises the "positional argument" TypeError and is
    \* retried as concrete(**kwargs), which rejects any keyword.
    THEN IF kwargs = NoKwargs
           THEN Done([c EXCEPT !.nextId = @ + 1],
                     Obj(c.nextId, "G", {}, {}), "built")
           ELSE Failed(c, TypeErr)
  ELSE build_params(c, concrete, kwargs, depth, 1, {})

\* resolve(): "if not kwargs and self.is_scoped(...)": cache the instance
\* in the scoped cache.
cache_scoped(c, key, instance, kwargs) ==
  IF CacheWrite(kwargs) /\ is_scoped(c, key)
    THEN [c EXCEPT !.scoped_instances = Put(@, key, instance),
                   !.stale = @ \ {<<"scoped", key>>}]
    ELSE c

\* The singleton cache written only while it holds nothing for the key.
cache_shared_KeepFirst(c, key, instance, kwargs) ==
  IF CacheWrite(kwargs) /\ is_shared(c, key) /\ key \notin DOMAIN c.instances
    THEN [c EXCEPT !.instances = Put(@, key, instance),
                   !.stale = @ \ {<<"shared", key>>}]
    ELSE c

\* resolve(): "if not kwargs and self.is_shared(...)": cache the instance
\* in the singleton cache.
cache_shared(c, key, instance, kwargs) ==
  IF CacheWrite(kwargs) /\ is_shared(c, key)
    THEN [c EXCEPT !.instances = Put(@, key, instance),
                   !.stale = @ \ {<<"shared", key>>}]
    ELSE c

\* resolve(): the resolving and the after-resolving callbacks, when
\* raise_events.
fire_resolved(c, key, instance, raise_events, depth) ==
  IF raise_events
    THEN fire_after_resolving_callbacks(
           fire_resolving_callbacks(c, key, instance, depth),
           key, instance, depth)
    ELSE c

\* resolve() after the build b: an exception leaves resolve; otherwise the
\* caches are written, the key is marked resolved and the callbacks fire.
resolve_finish(b, key, raise_events, kwargs, depth) ==
  IF b.err # "" THEN b
  ELSE callbacks_fired(
         fire_resolved(
           MarkResolved(
             cache_shared(
               cache_scoped(Mark(b.c, "built", key, b.ret, depth),
                            key, b.ret, kwargs),
               key, b.ret, kwargs),
             key),
           key, b.ret, raise_events, depth),
         b.ret, b.how)

\* resolve(): a callable concrete is built, any other is the instance.
resolve_build(c, key, concrete, raise_events, kwargs, depth) ==
  resolve_finish(
    IF IsCallable(concrete)
      THEN build(Mark(c, "build", key, NoneVal, depth), concrete, kwargs, depth)
      ELSE Done(Mark(c, "build", key, NoneVal, depth), Literal(concrete),
                "literal"),
    key, raise_events, kwargs, depth)

\* resolve() without a binding: "if isinstance(original_abstract, type)"
\* the class itself is the concrete.
CanAutoWire_Always(isType) == TRUE
CanAutoWire(isType) == isType

\* resolve() after the before-resolving callbacks: the scoped cache, the
\* singleton cache, then the binding or, for a class, the class itself.
resolve_lookup(c, abstract, key, raise_events, isType, kwargs, depth) ==
  IF CacheLookup(kwargs) /\ ScopedHit(c, key)
    THEN Done(c, c.scoped_instances[key], "scoped")
  ELSE IF CacheLookup(kwargs) /\ key \in DOMAIN c.instances
    THEN Done(c, c.instances[key], "shared")
  ELSE IF key \notin DOMAIN c.bindings /\ ~CanAutoWire(isType)
    THEN Raised(c, ENF, NotFoundMsg(key))
  ELSE resolve_build(c, key,
                     IF key \in DOMAIN c.bindings
                       THEN c.bindings[key].concrete ELSE abstract,
                     raise_events, kwargs, depth)

\* resolve() once the before-resolving callbacks have fired: an exception
\* of one of them leaves resolve before any lookup.
resolve_announced(c, abstract, key, raise_events, isType, kwargs, depth) ==
  IF c.failed
    THEN Failed([c EXCEPT !.failed = FALSE], CallbackErr)
    ELSE resolve_lookup(c, abstract, key, raise_events, isType, kwargs, depth)

\* resolve() from the canonical key on; a cyclic alias chain never yields
\* one.
resolve_key(c, abstract, key, raise_events, isType, kwargs, depth) ==
  IF key = RecErr THEN Failed(c, RecErr)
  ELSE resolve_announced(
         IF raise_events
           THEN fire_before_resolving_callbacks(c, key, depth) ELSE c,
         abstract, key, raise_events, isType, kwargs, depth)

\* resolve(abstract, raise_events, **kwargs); isType says whether the
\* caller passed a class.
resolve_events(c, abstract, raise_events, isType, kwargs, depth) ==
  IF depth <= 0 THEN Failed(c, RecErr)
  ELSE resolve_key(c, abstract, CanonicalKey(c, abstract), raise_events,
                   isType, kwargs, depth)

\* resolve(abstract, **kwargs) with raise_events left at its default, as
\* make() and the nested makes of _build call it.
resolve(c, abstract, isType, kwargs, depth) ==
  resolve_events(c, abstract, TRUE, isType, kwargs, depth)

\* ------------------------------------------------------------ operations
Outcome(op, name, kwargs, r) ==
  [op |-> op, name |-> name, kwargs |-> kwargs, ret |-> r.ret, err |-> r.err,
   how |-> r.how, msg |-> r.msg]
Plain(op, name, err) ==
  [op |-> op, name |-> name, kwargs |-> NoKwargs, ret |-> NoneVal, err |-> err,
   how |-> IF err = "" THEN "done" ELSE "error", msg |-> << >>]

\* The container variables after a resolution.
Install(c) ==
  /\ bindings' = c.bindings
  /\ instances' = c.instances
  /\ aliases' = c.aliases
  /\ resolved' = c.resolved
  /\ scoped_instances' = c.scoped_instances
  /\ nextId' = c.nextId
  /\ stale' = c.stale
  /\ fired' = c.fired

\* The registries of __init__: three global lists and three per-key
\* tables of lists; a callback is the number of its registration, and
\* `raising` holds the callbacks whose body raises.
NoCallbacks ==
  [global_before_resolving_callbacks |-> << >>,
   before_resolving_callbacks |-> Empty,
   global_resolving_callbacks |-> << >>,
   resolving_callbacks |-> Empty,
   global_after_resolving_callbacks |-> << >>,
   after_resolving_callbacks |-> Empty,
   raising |-> {}]

Fresh ==
  /\ bindings = Empty
  /\ instances = Empty
  /\ aliases = Empty
  /\ resolved = {}
  /\ scoped_instances = Empty
  /\ rebinding_callbacks = {}
  /\ environment_resolver = "none"
  /\ contextual = {}
  /\ nextId = 1
  /\ stale = {}
  /\ invalidated = {}
  /\ made = Empty
  /\ intact = {}
  /\ callbacks = NoCallbacks
  /\ fired = << >>
  /\ last = Plain("init", "", "")

\* events_to_defer = None: every event is deferred.
DeferAll == {"*"}

\* What a dispatch returns: the list of responses, or with halt one
\* response ("None" when no listener answered).
ListResponse(items) == [kind |-> "list", items |-> items, value |-> "None"]
ValueResponse(value) == [kind |-> "value", items |-> << >>, value |-> value]

\* Dispatcher.__init__.
FreshDispatcher ==
  /\ listeners = Empty
  /\ wildcards = << >>
  /\ deferring_events = FALSE
  /\ deferred_events = << >>
  /\ events_to_defer = DeferAll
  /\ frames = << >>
  /\ delivered = << >>
  /\ payloads = 0
  /\ response = ListResponse(<< >>)

\* A service provider: the class passed to register() (id 0, isType) or an
\* instance of it (id >= 1). _normalize_abstract turns the class into its
\* qualified name and returns anything else as it is, so the class value
\* also stands for the string key and the instance for itself.
ProviderClass(cls) == [isType |-> TRUE, cls |-> cls, id |-> 0]
ProviderInstance(cls, id) == [isType |-> FALSE, cls |-> cls, id |-> id]
NoProvider == [isType |-> FALSE, cls |-> "", id |-> 0]

\* The providers Application.__init__ registers, in order.
BaseProviders ==
  << "EventServiceProvider", "LogServiceProvider",
     "ConsoleCommandServiceProvider" >>

\* Application.__init__: nothing booted, no callbacks, and the base service
\* providers registered through register(), each under its instance.
FreshApplication ==
  /\ is_booted = FALSE
  /\ booting_callbacks = << >>
  /\ booted_callbacks = << >>
  /\ invoked_callbacks = << >>
  /\ service_providers =
       [k \in {ProviderInstance(BaseProviders[i], i) :
                 i \in DOMAIN BaseProviders} |-> k]
  /\ provider_log =
       [i \in 1..(2 * Len(BaseProviders)) |->
          [call |-> IF i % 2 = 1 THEN "init" ELSE "register",
           cls |-> BaseProviders[(i + 1) \div 2], id |-> (i + 1) \div 2]]
  /\ registered =
       ProviderInstance(BaseProviders[Len(BaseProviders)], Len(BaseProviders))

Init ==
  /\ Fresh
  /\ FreshDispatcher
  /\ FreshApplication
  /\ threads = << >>
  /\ ops = MaxOps

\* _drop_stale_instances(abstract).
drop_stale_instances_KeepScoped(c, abstract) ==
  [c EXCEPT !.instances = Drop(@, abstract), !.aliases = Drop(@, abstract)]
drop_stale_instances(c, abstract) ==
  [c EXCEPT !.instances = Drop(@, abstract),
            !.scoped_instances = Drop(@, abstract),
            !.aliases = Drop(@, abstract)]

\* Cache entries of a key that survive its bind are stale from then on.
StaleAfterBind(c, abstract) ==
  (c.stale \ {<<"shared", abstract>>, <<"scoped", abstract>>})
    \cup {<<"shared", k>> : k \in {abstract} \cap DOMAIN c.instances}
    \cup {<<"scoped", k>> : k \in {abstract} \cap DOMAIN c.scoped_instances}

\* _fire_rebinding_callbacks: the key's rebinding callbacks, if any.
fire_rebinding_callbacks(c, abstract, registry) ==
  IF abstract \in registry
    THEN [c EXCEPT !.fired =
            Append(@, Event("rebinding", abstract, 0, abstract, NoneVal, MaxDepth))]
    ELSE c

\* bind re-resolves a rebound key with raise_events=False and fires the
\* resolving callbacks itself.
RebindRaiseEvents_On == TRUE
RebindRaiseEvents == FALSE

\* bind fires rebinding callbacks only when the key had a binding already.
NeedsRebinding_Always(needs_rebinding) == TRUE
NeedsRebinding(needs_rebinding) == needs_rebinding

\* bind after it re-resolved the key with outcome r: the resolving
\* callbacks fire for the new instance.
rebound_fired(r, abstract) ==
  IF r.err = ""
    THEN callbacks_fired(
           fire_resolving_callbacks(r.c, abstract, r.ret, MaxDepth),
           r.ret, r.how)
    ELSE r

\* The end of a bind that re-resolved the key with outcome r; an exception
\* of the resolution or of a callback leaves bind.
Rebound(r, abstract) ==
  /\ Install(r.c)
  /\ last' = Outcome("bind", abstract, NoKwargs, r)

\* bind(abstract, concrete, shared, scoped=...), which singleton() and
\* scoped() call; concrete "None" is the omitted argument.
Bind(abstract, concrete, shared, scoped) ==
  /\ ops > 0
  /\ LET c1 == drop_stale_instances(Cont, abstract)
         conc == IF concrete = "None" THEN abstract ELSE concrete
         needs_rebinding == abstract \in DOMAIN bindings
         c2 == [c1 EXCEPT
                  !.bindings = Put(@, abstract,
                     [concrete |-> conc, shared |-> shared, scoped |-> scoped]),
                  !.stale = StaleAfterBind(c1, abstract)]
     IN IF NeedsRebinding(needs_rebinding) /\ abstract \in rebinding_callbacks
          THEN Rebound(
                 rebound_fired(
                   resolve_events(
                     fire_rebinding_callbacks(c2, abstract,
                                              rebinding_callbacks),
                     abstract, RebindRaiseEvents, FALSE, NoKwargs, MaxDepth),
                   abstract),
                 abstract)
          ELSE /\ Install(c2)
               /\ last' = Plain("bind", abstract, "")
  /\ invalidated' = invalidated \cup
       ({abstract} \cap (DOMAIN instances \cup DOMAIN scoped_instances))
  /\ made' = Drop(made, abstract)
  /\ intact' = intact \cup {abstract}
  /\ ops' = ops - 1
  /\ UNCHANGED << dispatcherVars, applicationVars, threads >>
  /\ UNCHANGED << rebinding_callbacks, environment_resolver, contextual,
                  callbacks >>

\* instance(abstract, instance).
Instance(abstract, value) ==
  /\ ops > 0
  /\ aliases' = Drop(aliases, abstract)
  /\ instances' = Put(instances, abstract, value)
  /\ stale' = stale \ {<<"shared", abstract>>}
  /\ made' = Drop(made, abstract)
  /\ ops' = ops - 1
  /\ UNCHANGED << dispatcherVars, applicationVars, threads >>
  /\ last' = [Plain("instance", abstract, "") EXCEPT !.ret = value]
  /\ fired' = << >>
  /\ intact' = intact \ {abstract}
  /\ UNCHANGED << callbacks, invalidated, bindings, resolved, scoped_instances, rebinding_callbacks,
                  environment_resolver, contextual, nextId >>

\* The two tests of alias() that raise ValueError.
AliasRejected_UnboundOnly(c, abstract, alias) == ~bound(c, abstract)
AliasRejected(c, abstract, alias) ==
  ~bound(c, abstract) \/ alias = abstract

\* alias(abstract, alias).
Alias(abstract, alias) ==
  /\ ops > 0
  /\ IF AliasRejected(Cont, abstract, alias)
       THEN /\ last' = Plain("alias", alias, ValErr)
            /\ UNCHANGED aliases
       ELSE /\ last' = Plain("alias", alias, "")
            /\ aliases' = Put(aliases, alias, abstract)
  /\ ops' = ops - 1
  /\ UNCHANGED << dispatcherVars, applicationVars, threads >>
  /\ fired' = << >>
  /\ intact' = IF AliasRejected(Cont, abstract, alias)
                 THEN intact ELSE intact \ {alias}
  /\ UNCHANGED << callbacks, invalidated, bindings, instances, resolved, scoped_instances,
                  rebinding_callbacks, environment_resolver, contextual,
                  nextId, stale, made >>

\* The end of make/get with the outcome r of resolve: get turns the
\* exception into EntryNotFoundException unless has(id).
Returned(op, abstract, kwargs, r, wrap) ==
  /\ Install(r.c)
  /\ last' = Outcome(op, abstract, kwargs,
                     IF wrap /\ r.err # "" /\ ~bound(r.c, abstract)
                       THEN Raised(r.c, ENF, NotFoundMsg(abstract)) ELSE r)
  /\ made' = IF kwargs = NoKwargs /\ r.err = ""
               THEN Put(made, abstract, r.ret) ELSE made

\* make(abstract, **kwargs).
Make(abstract, isType, kwargs) ==
  /\ ops > 0
  /\ Returned("make", abstract, kwargs,
              resolve(Cont, abstract, isType, kwargs, MaxDepth), FALSE)
  /\ ops' = ops - 1
  /\ UNCHANGED << dispatcherVars, applicationVars, threads >>
  /\ UNCHANGED << invalidated, rebinding_callbacks, environment_resolver,
                  contextual, intact, callbacks >>

\* forget_instance(abstract) leaving the cached instance.
ForgetInstance_Keep(abstract) ==
  /\ ops > 0
  /\ instances' = instances
  /\ stale' = stale \ {<<"shared", abstract>>}
  /\ made' = Drop(made, abstract)
  /\ ops' = ops - 1
  /\ UNCHANGED << dispatcherVars, applicationVars, threads >>
  /\ last' = Plain("forget_instance", abstract, "")
  /\ fired' = << >>
  /\ UNCHANGED << callbacks, intact, invalidated, bindings, aliases, resolved, scoped_instances,
                  rebinding_callbacks, environment_resolver, contextual, nextId >>

\* forget_instance(abstract).
ForgetInstance(abstract) ==
  /\ ops > 0
  /\ instances' = Drop(instances, abstract)
  /\ stale' = stale \ {<<"shared", abstract>>}
  /\ made' = Drop(made, abstract)
  /\ ops' = ops - 1
  /\ UNCHANGED << dispatcherVars, applicationVars, threads >>
  /\ last' = Plain("forget_instance", abstract, "")
  /\ fired' = << >>
  /\ UNCHANGED << callbacks, intact, invalidated, bindings, aliases, resolved, scoped_instances,
                  rebinding_callbacks, environment_resolver, contextual, nextId >>

\* forget_instances().
ForgetInstances ==
  /\ ops > 0
  /\ instances' = Empty
  /\ stale' = {e \in stale : e[1] # "shared"}
  /\ made' = Empty
  /\ ops' = ops - 1
  /\ UNCHANGED << dispatcherVars, applicationVars, threads >>
  /\ last' = Plain("forget_instances", "", "")
  /\ fired' = << >>
  /\ UNCHANGED << callbacks, intact, invalidated, bindings, aliases, resolved, scoped_instances,
                  rebinding_callbacks, environment_resolver, contextual, nextId >>

\* forget_scoped_instances().
ForgetScopedInstances ==
  /\ ops > 0
  /\ scoped_instances' = Empty
  /\ stale' = {e \in stale : e[1] # "scoped"}
  /\ made' = Empty
  /\ ops' = ops - 1
  /\ UNCHANGED << dispatcherVars, applicationVars, threads >>
  /\ last' = Plain("forget_scoped_instances", "", "")
  /\ fired' = << >>
  /\ UNCHANGED << callbacks, intact, invalidated, bindings, aliases, resolved, instances,
                  rebinding_callbacks, environment_resolver, contextual, nextId >>

\* flush() leaving the scoped cache.
Flush_KeepScoped ==
  /\ ops > 0
  /\ aliases' = Empty
  /\ resolved' = {}
  /\ bindings' = Empty
  /\ instances' = Empty
  /\ stale' = {}
  /\ made' = Empty
  /\ ops' = ops - 1
  /\ UNCHANGED << dispatcherVars, applicationVars, threads >>
  /\ last' = Plain("flush", "", "")
  /\ fired' = << >>
  /\ intact' = {}
  /\ UNCHANGED << callbacks, scoped_instances, invalidated, rebinding_callbacks, environment_resolver, contextual, nextId >>

\* flush().
Flush ==
  /\ ops > 0
  /\ aliases' = Empty
  /\ resolved' = {}
  /\ bindings' = Empty
  /\ instances' = Empty
  /\ scoped_instances' = Empty
  /\ stale' = {}
  /\ made' = Empty
  /\ ops' = ops - 1
  /\ UNCHANGED << dispatcherVars, applicationVars, threads >>
  /\ last' = Plain("flush", "", "")
  /\ fired' = << >>
  /\ intact' = {}
  /\ UNCHANGED << callbacks, invalidated, rebinding_callbacks, environment_resolver, contextual, nextId >>

\* del container[key].
DelItem(key) ==
  /\ ops > 0
  /\ bindings' = Drop(bindings, key)
  /\ instances' = Drop(instances, key)
  /\ resolved' = resolved \ {key}
  /\ stale' = stale \ {<<"shared", key>>}
  /\ made' = Drop(made, key)
  /\ ops' = ops - 1
  /\ UNCHANGED << dispatcherVars, applicationVars, threads >>
  /\ last' = Plain("delitem", key, "")
  /\ fired' = << >>
  /\ intact' = intact \ {key}
  /\ UNCHANGED << callbacks, invalidated, aliases, scoped_instances, rebinding_callbacks,
                  environment_resolver, contextual, nextId >>

\* rebinding(abstract, callback): stored under the alias-chased key.
Rebinding(abstract) ==
  /\ ops > 0
  /\ LET key == get_alias(Cont, abstract) IN
       IF key = RecErr
         THEN /\ last' = Plain("rebinding", abstract, RecErr)
              /\ UNCHANGED rebinding_callbacks
         ELSE /\ last' = Plain("rebinding", abstract, "")
              /\ rebinding_callbacks' = rebinding_callbacks \cup {key}
  /\ ops' = ops - 1
  /\ UNCHANGED << dispatcherVars, applicationVars, threads >>
  /\ fired' = << >>
  /\ UNCHANGED << callbacks, intact, invalidated, bindings, instances, aliases, resolved, scoped_instances,
                  environment_resolver, contextual, nextId, stale, made >>

\* resolve_environment_using(callback); answer is what the callback returns.
ResolveEnvironmentUsing(answer) ==
  /\ ops > 0
  /\ environment_resolver' = answer
  /\ ops' = ops - 1
  /\ UNCHANGED << dispatcherVars, applicationVars, threads >>
  /\ last' = Plain("resolve_environment_using", answer, "")
  /\ fired' = << >>
  /\ UNCHANGED << callbacks, intact, invalidated, bindings, instances, aliases, resolved, scoped_instances,
                  rebinding_callbacks, contextual, nextId, stale, made >>

\* ContextualBindingBuilder(container, concrete).needs(abstract).give(impl):
\* give() calls container.add_contextual_binding, which Container does not
\* define, so the call ends in AttributeError and registers nothing.
Give(concrete, abstract, implementation) ==
  /\ ops > 0
  /\ contextual' = contextual \cup {<<concrete, abstract, implementation>>}
  /\ ops' = ops - 1
  /\ UNCHANGED << dispatcherVars, applicationVars, threads >>
  /\ last' = Plain("give", concrete, AttrErr)
  /\ fired' = << >>
  /\ UNCHANGED << callbacks, intact, invalidated, bindings, instances, aliases, resolved, scoped_instances,
                  rebinding_callbacks, environment_resolver, nextId, stale, made >>

\* get(id): make(id); an exception is re-raised when has(id) and becomes
\* EntryNotFoundException otherwise.
Get(id, isType) ==
  /\ ops > 0
  /\ Returned("get", id, NoKwargs,
              resolve(Cont, id, isType, NoKwargs, MaxDepth), TRUE)
  /\ ops' = ops - 1
  /\ UNCHANGED << dispatcherVars, applicationVars, threads >>
  /\ UNCHANGED << invalidated, rebinding_callbacks, environment_resolver,
                  contextual, intact, callbacks >>

\* The test of bind_if: "if not self.bound(abstract)".
BindIfBound_BindingsOnly(c, abstract) == abstract \in DOMAIN c.bindings
BindIfBound(c, abstract) == bound(c, abstract)

\* bind_if(abstract, concrete, shared), which singleton_if() calls with
\* shared=True.
BindIf(abstract, concrete, shared) ==
  IF BindIfBound(Cont, abstract)
    THEN /\ ops > 0
         /\ ops' = ops - 1
         /\ UNCHANGED << dispatcherVars, applicationVars, threads >>
         /\ last' = Plain("bind_if", abstract, "")
         /\ fired' = << >>
         /\ UNCHANGED << bindings, instances, aliases, resolved,
                         scoped_instances, rebinding_callbacks,
                         environment_resolver, contextual, nextId, stale,
                         invalidated, made, intact, callbacks >>
    ELSE Bind(abstract, concrete, shared, FALSE)

\* container[key] = value: a closure is bound as a transient factory, any
\* other value (a class too) is registered as an instance.
SetItem(key, value) ==
  IF IsCallable(value) /\ value \notin Classes
    THEN Bind(key, value, FALSE, FALSE)
    ELSE Instance(key, External(value))

\* callback(**parameters) as Python evaluates it: a keyword that is not a
\* parameter, or a parameter without default that got no keyword, is a
\* TypeError; the method returns the value of its parameter.
invoke(c, cls, method, parameters) ==
  IF ~HasMethod(cls, method) THEN Failed(c, AttrErr)
  ELSE IF \E kv \in parameters :
            \A i \in DOMAIN MethodParams(cls, method) :
              MethodParams(cls, method)[i].name # kv[1]
    THEN Failed(c, TypeErr)
  ELSE IF \E i \in DOMAIN MethodParams(cls, method) :
            /\ ~MethodParams(cls, method)[i].hasDefault
            /\ ~HasKwarg(parameters, MethodParams(cls, method)[i].name)
    THEN Failed(c, TypeErr)
  ELSE Done(c, KwargValue(parameters, MethodParams(cls, method)[1].name),
            "called")

\* call() once the instance of a "Class:method" string is resolved
\* (outcome r): getattr(instance, method_name), then the invocation.
call_on(r, method, parameters) ==
  IF r.err # "" THEN r
  ELSE invoke(r.c, r.ret.cls, method, parameters)

\* call(callback, parameters). A callable is invoked as it is; for a
\* string "Class:method" the class is resolved first: by its key when
\* bound, else by importing the dotted name and auto-wiring the class; a
\* name that is neither bound nor dotted is a ValueError.
call(c, callback, isString, parameters) ==
  IF ~isString
    THEN invoke(c, callback[1], callback[2], parameters)
  ELSE IF ~bound(c, callback[1]) /\ callback[1] \notin Classes
    THEN Failed(c, ValErr)
  ELSE call_on(resolve(c, callback[1], ~bound(c, callback[1]), NoKwargs,
                       MaxDepth),
               callback[2], parameters)

\* The container after call() with outcome r.
Called(callback, parameters, r) ==
  /\ Install(r.c)
  /\ last' = Outcome("call", callback[2], parameters, r)

Call(callback, isString, parameters) ==
  /\ ops > 0
  /\ Called(callback, parameters, call(Cont, callback, isString, parameters))
  /\ ops' = ops - 1
  /\ UNCHANGED << dispatcherVars, applicationVars, threads >>
  /\ UNCHANGED << invalidated, rebinding_callbacks, environment_resolver,
                  contextual, intact, callbacks, made >>

\* The number the next registered callback gets.
RECURSIVE SumLen(_, _)
SumLen(table, keys) ==
  IF keys = {} THEN 0
  ELSE LET k == CHOOSE x \in keys : TRUE
       IN Len(table[k]) + SumLen(table, keys \ {k})
NextCallback ==
  1 + Len(callbacks.global_before_resolving_callbacks)
    + Len(callbacks.global_resolving_callbacks)
    + Len(callbacks.global_after_resolving_callbacks)
    + SumLen(callbacks.before_resolving_callbacks,
             DOMAIN callbacks.before_resolving_callbacks)
    + SumLen(callbacks.resolving_callbacks,
             DOMAIN callbacks.resolving_callbacks)
    + SumLen(callbacks.after_resolving_callbacks,
             DOMAIN callbacks.after_resolving_callbacks)

\* The body the three registration methods share: a callable given alone
\* ("*") goes to the global list, otherwise the callback is appended to
\* the list of the alias-chased key.
Register(op, globalList, table, abstract, raises) ==
  /\ ops > 0
  /\ LET key == get_alias(Cont, abstract) IN
       IF abstract = "*"
         THEN /\ callbacks' = [callbacks EXCEPT
                                 ![globalList] = Append(@, NextCallback),
                                 !.raising = IF raises
                                               THEN @ \cup {NextCallback}
                                               ELSE @]
              /\ last' = Plain(op, abstract, "")
       ELSE IF key = RecErr
         THEN /\ last' = Plain(op, abstract, RecErr)
              /\ UNCHANGED callbacks
         ELSE /\ callbacks' = [callbacks EXCEPT
                                 ![table] = Put(@, key,
                                   Append(ListOf(@, key), NextCallback)),
                                 !.raising = IF raises
                                               THEN @ \cup {NextCallback}
                                               ELSE @]
              /\ last' = Plain(op, abstract, "")
  /\ ops' = ops - 1
  /\ UNCHANGED << dispatcherVars, applicationVars, threads >>
  /\ fired' = << >>
  /\ UNCHANGED << bindings, instances, aliases, resolved, scoped_instances,
                  rebinding_callbacks, environment_resolver, contextual,
                  nextId, stale, invalidated, made, intact >>

\* before_resolving(abstract, callback) with a callback that returns.
BeforeResolving(abstract) ==
  Register("before_resolving", "global_before_resolving_callbacks",
           "before_resolving_callbacks", abstract, FALSE)

\* resolving(abstract, callback) with a callback that returns.
Resolving(abstract) ==
  Register("resolving", "global_resolving_callbacks",
           "resolving_callbacks", abstract, FALSE)

\* after_resolving(abstract, callback) with a callback that returns.
AfterResolving(abstract) ==
  Register("after_resolving", "global_after_resolving_callbacks",
           "after_resolving_callbacks", abstract, FALSE)

\* before_resolving / resolving / after_resolving(abstract, callback), op
\* naming the method, with a callback that raises when it is called.
RaisingCallback(op, abstract) ==
  Register(op, "global_" \o op \o "_callbacks", op \o "_callbacks",
           abstract, TRUE)

\* ------------------------------------------------------------ dispatcher
\* Event names; a cascading listener dispatches CascadeEvent itself.
Events == {"a", "b"}
CascadeEvent == "b"
\* What a listener returns: None, False, a falsy value that is neither
\* (0, "", []), or a truthy value.
Returns == {"None", "False", "0", "x"}
\* A listener that raises instead of returning.
Raises == "raise"
\* The exception of a listener or of a defer callback.
ListenerErr == "RuntimeError"
\* Listeners one run registers.
MaxListeners == 3

\* The part of the dispatcher dispatch() reads and writes, as one record.
Disp == [listeners |-> listeners, wildcards |-> wildcards,
         deferring_events |-> deferring_events,
         deferred_events |-> deferred_events,
         events_to_defer |-> events_to_defer,
         delivered |-> delivered, payloads |-> payloads, raised |-> FALSE]

\* The dispatcher variables dispatch() can change, and its answer or the
\* exception that leaves it.
Dispatched(r, event) ==
  /\ deferred_events' = r.d.deferred_events
  /\ delivered' = r.d.delivered
  /\ payloads' = r.d.payloads
  /\ response' = IF r.d.raised THEN response ELSE r.response
  /\ last' = Plain("dispatch", event, IF r.d.raised THEN ListenerErr ELSE "")

\* _should_defer_event(event).
should_defer_event_All(d, event) == d.deferring_events
should_defer_event(d, event) ==
  d.deferring_events
    /\ (d.events_to_defer = DeferAll \/ event \in d.events_to_defer)

\* get_listeners(event_name): the listeners registered for the name, then
\* the wildcard listeners.
get_listeners(d, event_name) == ListOf(d.listeners, event_name) \o d.wildcards

\* _invoke_listeners: "if response is False" ends the loop.
StopsPropagation_Falsy(r) == r \in {"False", "0"}
StopsPropagation(r) == r = "False"

RECURSIVE dispatch(_, _, _, _)
RECURSIVE invoke_listeners(_, _, _, _, _, _, _)

\* What a cascading listener does with the dispatcher: it dispatches
\* CascadeEvent with a payload of its own.
cascade(d) ==
  dispatch([d EXCEPT !.payloads = @ + 1], CascadeEvent, d.payloads + 1, FALSE).d

\* _invoke_listener(listener, event, payload): the listener runs; `raised`
\* is its exception in flight.
invoke_listener(d, listener, event, payload) ==
  IF listener.returns = Raises
    THEN [d EXCEPT !.delivered =
            Append(@, [listener |-> listener.id, event |-> event,
                       payload |-> payload]),
                   !.raised = TRUE]
  ELSE IF listener.cascade
    THEN cascade([d EXCEPT !.delivered =
                    Append(@, [listener |-> listener.id, event |-> event,
                               payload |-> payload])])
    ELSE [d EXCEPT !.delivered =
            Append(@, [listener |-> listener.id, event |-> event,
                       payload |-> payload])]

\* _invoke_listeners after listener i answered r: with halt the first
\* answer that is not None is returned; False ends the loop; an exception
\* of the listener, or of a dispatch it made, leaves the loop.
invoked(d, r, event, payload, list, halt, i, responses) ==
  IF d.raised
    THEN [d |-> d, response |-> ValueResponse("None")]
  ELSE IF halt /\ r # "None"
    THEN [d |-> d, response |-> ValueResponse(r)]
  ELSE IF StopsPropagation(r)
    THEN [d |-> d, response |-> IF halt THEN ValueResponse("None")
                                 ELSE ListResponse(Append(responses, r))]
  ELSE invoke_listeners(d, event, payload, list, halt, i + 1,
                        Append(responses, r))

\* _invoke_listeners(event, payload, listeners, halt) from listener i on.
invoke_listeners(d, event, payload, list, halt, i, responses) ==
  IF i > Len(list)
    THEN [d |-> d, response |-> IF halt THEN ValueResponse("None")
                                 ELSE ListResponse(responses)]
    ELSE invoked(invoke_listener(d, list[i], event, payload),
                 list[i].returns, event, payload, list, halt, i, responses)

\* dispatch(event, payload, halt).
dispatch(d, event, payload, halt) ==
  IF should_defer_event(d, event)
    THEN [d |-> [d EXCEPT !.deferred_events =
                   Append(@, << event, payload, halt >>)],
          response |-> IF halt THEN ValueResponse("None")
                       ELSE ListResponse(<< >>)]
    ELSE invoke_listeners(d, event, payload, get_listeners(d, event), halt,
                          1, << >>)

\* defer(): "for args in self.deferred_events: await self.dispatch(*args)".
RECURSIVE flush_deferred(_, _, _)
flush_deferred(d, queue, i) ==
  IF i > Len(queue) \/ d.raised THEN d
  ELSE flush_deferred(dispatch(d, queue[i][1], queue[i][2], queue[i][3]).d,
                      queue, i + 1)

\* The number of the next registered listener.
NextListener == 1 + SumLen(listeners, DOMAIN listeners) + Len(wildcards)

\* listen(events, listener): a callable given alone ("*") is a wildcard
\* listener, otherwise the listener is appended to the event's list.
Listen(event, returns, isCascade) ==
  /\ NextListener <= MaxListeners
  /\ IF event = "*"
       THEN /\ wildcards' = Append(wildcards,
                 [id |-> NextListener, returns |-> returns,
                  cascade |-> isCascade])
            /\ UNCHANGED listeners
       ELSE /\ listeners' = Put(listeners, event,
                 Append(ListOf(listeners, event),
                        [id |-> NextListener, returns |-> returns,
                         cascade |-> isCascade]))
            /\ UNCHANGED wildcards
  /\ last' = Plain("listen", event, "")
  /\ UNCHANGED << containerVars, applicationVars, threads, ops, deferring_events, deferred_events,
                  events_to_defer, frames, delivered, payloads, response >>

\* dispatch(event, payload, halt) called by the program or by the defer
\* callback that is running; the payload is a value of its own.
Dispatch(event, halt) ==
  /\ ops > 0
  /\ Dispatched(dispatch([Disp EXCEPT !.payloads = @ + 1], event,
                         payloads + 1, halt), event)
  /\ ops' = ops - 1
  /\ UNCHANGED << containerVars, applicationVars, threads, listeners, wildcards, deferring_events,
                  events_to_defer, frames >>

\* defer(callback, events) up to the call of the callback: the previous
\* state is kept in locals and deferring starts with an empty queue.
Defer(events) ==
  /\ ops > 0
  /\ frames' = Append(frames,
       [events |-> events,
        was_deferring |-> deferring_events,
        previous_deferred_events |-> deferred_events,
        previous_events_to_defer |-> events_to_defer])
  /\ deferring_events' = TRUE
  /\ deferred_events' = << >>
  /\ events_to_defer' = events
  /\ ops' = ops - 1
  /\ last' = Plain("defer", "", "")
  /\ UNCHANGED << containerVars, applicationVars, threads, listeners, wildcards, delivered, payloads,
                  response >>

\* The `finally` of defer() leaving the queue of the call in place.
Restored_LeaveQueue(frame) ==
  /\ deferring_events' = frame.was_deferring
  /\ deferred_events' = deferred_events
  /\ events_to_defer' = frame.previous_events_to_defer
  /\ frames' = SubSeq(frames, 1, Len(frames) - 1)

\* The `finally` of defer(): the locals are written back.
Restored(frame) ==
  /\ deferring_events' = frame.was_deferring
  /\ deferred_events' = frame.previous_deferred_events
  /\ events_to_defer' = frame.previous_events_to_defer
  /\ frames' = SubSeq(frames, 1, Len(frames) - 1)

\* The end of a defer() whose callback returned, d being the dispatcher
\* after the loop over the queue.
Flushed(d) ==
  /\ delivered' = d.delivered
  /\ payloads' = d.payloads
  /\ last' = Plain("defer_return", "", IF d.raised THEN ListenerErr ELSE "")

\* The innermost defer() after its callback returned: deferring is
\* switched off, the queued events are dispatched in order until a
\* listener raises, and the previous state is restored.
DeferReturn ==
  /\ ops > 0
  /\ frames # << >>
  /\ Flushed(flush_deferred([Disp EXCEPT !.deferring_events = FALSE],
                            deferred_events, 1))
  /\ Restored(frames[Len(frames)])
  /\ ops' = ops - 1
  /\ UNCHANGED << containerVars, applicationVars, threads, listeners, wildcards, response >>

\* The innermost defer() when its callback raises: only the `finally`
\* runs, the queued events are dropped.
DeferRaise ==
  /\ ops > 0
  /\ frames # << >>
  /\ Restored(frames[Len(frames)])
  /\ ops' = ops - 1
  /\ last' = Plain("defer_raise", "", ListenerErr)
  /\ UNCHANGED << containerVars, applicationVars, threads, listeners, wildcards, delivered, payloads,
                  response >>

\* ------------------------------------------------------------ application
\* The part of the application booting(), booted() and boot() read and
\* write, as one record.
App == [is_booted |-> is_booted, booting_callbacks |-> booting_callbacks,
        booted_callbacks |-> booted_callbacks,
        invoked_callbacks |-> invoked_callbacks]

\* A boot callback, named by the order of its registration. Its body is the
\* caller's: it returns, after registering one more booted callback through
\* app.booted() when `registers`.
Callback(id, registers) == [id |-> id, registers |-> registers]
NextBootCallback(a) == Len(a.booting_callbacks) + Len(a.booted_callbacks) + 1

RECURSIVE call_callback(_, _, _), app_booted(_, _), fire_callbacks(_, _, _)

\* callback(self), called from the loop over `list` or from booted().
call_callback(a, list, callback) ==
  IF callback.registers
  THEN app_booted([a EXCEPT !.invoked_callbacks =
                              Append(@, [list |-> list, id |-> callback.id])],
                  Callback(NextBootCallback(a), FALSE))
  ELSE [a EXCEPT !.invoked_callbacks =
                   Append(@, [list |-> list, id |-> callback.id])]

\* Application.booting(callback).
app_booting(a, callback) ==
  [a EXCEPT !.booting_callbacks = Append(@, callback)]

\* Whether booted() invokes the callback it has just stored.
InvokeNow_Never(a) == FALSE
InvokeNow(a) == a.is_booted

\* Application.booted(callback).
app_booted(a, callback) ==
  IF InvokeNow(a)
  THEN call_callback([a EXCEPT !.booted_callbacks = Append(@, callback)],
                     "booted", callback)
  ELSE [a EXCEPT !.booted_callbacks = Append(@, callback)]

\* `for callback in self._<list>_callbacks: callback(self)`: the loop reads
\* the list anew at every step, so it reaches callbacks appended meanwhile.
fire_callbacks(a, list, i) ==
  IF i > Len(IF list = "booting" THEN a.booting_callbacks
                                 ELSE a.booted_callbacks)
  THEN a
  ELSE fire_callbacks(
         call_callback(a, list,
                       IF list = "booting" THEN a.booting_callbacks[i]
                                           ELSE a.booted_callbacks[i]),
         list, i + 1)

\* Application.boot().
boot(a) ==
  IF a.is_booted
  THEN a
  ELSE [fire_callbacks(fire_callbacks(a, "booting", 1), "booted", 1)
          EXCEPT !.is_booted = TRUE]

\* The application variables a boot operation can change.
BootStep(a, op) ==
  /\ is_booted' = a.is_booted
  /\ booting_callbacks' = a.booting_callbacks
  /\ booted_callbacks' = a.booted_callbacks
  /\ invoked_callbacks' = a.invoked_callbacks
  /\ ops' = ops - 1
  /\ last' = Plain(op, "", "")
  /\ UNCHANGED << containerVars, dispatcherVars, service_providers,
                  provider_log, registered, threads >>

\* app.booting(callback).
Booting(registers) ==
  /\ ops > 0
  /\ BootStep(app_booting(App, Callback(NextBootCallback(App), registers)),
            "booting")

\* app.booted(callback).
BootedCallback(registers) ==
  /\ ops > 0
  /\ BootStep(app_booted(App, Callback(NextBootCallback(App), registers)),
            "booted")

\* app.boot().
Boot ==
  /\ ops > 0
  /\ BootStep(boot(App), "boot")

\* Provider classes passed to register().
ProviderClasses == {"EventServiceProvider", "LogServiceProvider"}

\* _normalize_abstract(provider): the qualified name of a class, and any
\* other value as it is.
provider_key(provider) ==
  IF provider.isType THEN ProviderClass(provider.cls) ELSE provider

\* Application.get_provider(provider).
get_provider(provider) ==
  IF provider_key(provider) \in DOMAIN service_providers
  THEN service_providers[provider_key(provider)]
  ELSE NoProvider

\* Providers constructed so far.
NextProvider ==
  Cardinality({i \in DOMAIN provider_log : provider_log[i].call = "init"}) + 1

\* Application.resolve_provider(provider) for a class, and the instance
\* itself otherwise.
resolve_provider(provider) ==
  IF provider.isType
  THEN ProviderInstance(provider.cls, NextProvider)
  ELSE provider

\* What register() calls on the way: the constructor for a class, the
\* provider's register(), and its boot() once the application has booted.
provider_calls(provider, instance) ==
  (IF provider.isType
   THEN << [call |-> "init", cls |-> instance.cls, id |-> instance.id] >>
   ELSE << >>)
  \o << [call |-> "register", cls |-> instance.cls, id |-> instance.id] >>
  \o (IF is_booted
      THEN << [call |-> "boot", cls |-> instance.cls, id |-> instance.id] >>
      ELSE << >>)

\* _mark_as_registered(provider).
mark_as_registered(providers, instance) ==
  [k \in DOMAIN providers \cup {provider_key(instance)} |->
     IF k = provider_key(instance) THEN instance ELSE providers[k]]

\* Application.register(provider, force).
RegisterProvider(provider, force) ==
  /\ ops > 0
  /\ IF get_provider(provider) # NoProvider /\ ~force
     THEN /\ registered' = get_provider(provider)
          /\ UNCHANGED << service_providers, provider_log >>
     ELSE /\ registered' = resolve_provider(provider)
          /\ provider_log' =
               provider_log \o provider_calls(provider,
                                              resolve_provider(provider))
          /\ service_providers' =
               mark_as_registered(service_providers,
                                  resolve_provider(provider))
  /\ ops' = ops - 1
  /\ last' = Plain("register", provider.cls, "")
  /\ UNCHANGED << containerVars, dispatcherVars, is_booted, booting_callbacks,
                  booted_callbacks, invoked_callbacks, threads >>

\* ----------------------------------------------------- interleaved callers
\* resolve() holds no lock, so the steps of two callers of make() can
\* interleave. A caller is [pc, abstract, key, concrete, instance]; its
\* steps are the statements of resolve() in order: the lookups, the build,
\* the cache writes, and the callbacks with the return.
Callers == 1..MaxCallers

Caller(pc, abstract, key, concrete, instance) ==
  [pc |-> pc, abstract |-> abstract, key |-> key, concrete |-> concrete,
   instance |-> instance]

\* resolve() from the before-resolving callbacks to the binding lookup: a
\* cached instance is returned, a key without a binding is an error (the
\* caller passed a name), anything else goes on to the build.
caller_lookup(c, key) ==
  IF key = RecErr THEN Failed(c, RecErr)
  ELSE IF c.failed THEN Failed([c EXCEPT !.failed = FALSE], CallbackErr)
  ELSE IF CacheLookup(NoKwargs) /\ ScopedHit(c, key)
    THEN Done(c, c.scoped_instances[key], "scoped")
  ELSE IF CacheLookup(NoKwargs) /\ key \in DOMAIN c.instances
    THEN Done(c, c.instances[key], "shared")
  ELSE IF key \notin DOMAIN c.bindings
    THEN Raised(c, ENF, NotFoundMsg(key))
  ELSE Done(c, NoneVal, "miss")

\* The caller t leaves resolve() with the result r.
CallerReturns(t, r) ==
  /\ Install(r.c)
  /\ threads' = [threads EXCEPT ![t].pc = "done", ![t].instance = r.ret]
  /\ last' = Outcome("make", threads[t].abstract, NoKwargs, r)
  /\ made' = IF r.err = ""
               THEN Put(made, threads[t].abstract, r.ret) ELSE made

\* The caller t has entered resolve() and done the lookups with result r.
Entered(t, abstract, key, r) ==
  IF r.how = "miss"
    THEN /\ Install(r.c)
         /\ threads' = Put(threads, t,
                           Caller("build", abstract, key,
                                  r.c.bindings[key].concrete, NoneVal))
         /\ last' = Plain("enter", abstract, "")
         /\ made' = made
    ELSE /\ Install(r.c)
         /\ threads' = Put(threads, t,
                           Caller("done", abstract, key, "None", r.ret))
         /\ last' = Outcome("make", abstract, NoKwargs, r)
         /\ made' = IF r.err = "" THEN Put(made, abstract, r.ret) ELSE made

\* A caller calls make(abstract) and runs resolve() up to the build.
Enter(t, abstract) ==
  /\ ops > 0
  /\ t \notin DOMAIN threads
  /\ Entered(t, abstract, CanonicalKey(Cont, abstract),
             caller_lookup(
               IF CanonicalKey(Cont, abstract) = RecErr THEN Cont
               ELSE fire_before_resolving_callbacks(
                      Cont, CanonicalKey(Cont, abstract), MaxDepth),
               CanonicalKey(Cont, abstract)))
  /\ ops' = ops - 1
  /\ UNCHANGED << dispatcherVars, applicationVars >>
  /\ UNCHANGED << invalidated, rebinding_callbacks, environment_resolver,
                  contextual, intact, callbacks >>

\* The caller t with the result b of its build.
CallerBuilt(t, b) ==
  IF b.err # ""
    THEN CallerReturns(t, b)
    ELSE /\ Install(b.c)
         /\ threads' = [threads EXCEPT ![t].pc = "write",
                                       ![t].instance = b.ret]
         /\ UNCHANGED << last, made >>

\* resolve(): the caller's "instance = self._build(concrete, **kwargs)", or
\* the concrete itself when it is not callable.
CallerBuild(t) ==
  /\ t \in DOMAIN threads
  /\ threads[t].pc = "build"
  /\ CallerBuilt(t,
       IF IsCallable(threads[t].concrete)
         THEN build(Mark(Cont, "build", threads[t].key, NoneVal, MaxDepth),
                    threads[t].concrete, NoKwargs, MaxDepth)
         ELSE Done(Mark(Cont, "build", threads[t].key, NoneVal, MaxDepth),
                   Literal(threads[t].concrete), "literal"))
  /\ UNCHANGED << ops, dispatcherVars, applicationVars >>
  /\ UNCHANGED << invalidated, rebinding_callbacks, environment_resolver,
                  contextual, intact, callbacks >>

\* resolve(): the caller's cache writes and "_resolved[abstract_str] = True".
CallerWrite(t) ==
  /\ t \in DOMAIN threads
  /\ threads[t].pc = "write"
  /\ Install(MarkResolved(
               cache_shared(
                 cache_scoped(
                   Mark(Cont, "built", threads[t].key, threads[t].instance,
                        MaxDepth),
                   threads[t].key, threads[t].instance, NoKwargs),
                 threads[t].key, threads[t].instance, NoKwargs),
               threads[t].key))
  /\ threads' = [threads EXCEPT ![t].pc = "fire"]
  /\ UNCHANGED << ops, last, made, dispatcherVars, applicationVars >>
  /\ UNCHANGED << invalidated, rebinding_callbacks, environment_resolver,
                  contextual, intact, callbacks >>

\* resolve(): the caller's resolving and after-resolving callbacks and its
\* "return instance".
CallerReturn(t) ==
  /\ t \in DOMAIN threads
  /\ threads[t].pc = "fire"
  /\ CallerReturns(t,
       callbacks_fired(
         fire_resolved(Cont, threads[t].key, threads[t].instance, TRUE,
                       MaxDepth),
         threads[t].instance, "built"))
  /\ UNCHANGED << ops, dispatcherVars, applicationVars >>
  /\ UNCHANGED << invalidated, rebinding_callbacks, environment_resolver,
                  contextual, intact, callbacks >>

\* ---------------------------------------------------------- specification
Lifetimes == {<<FALSE, FALSE>>, <<TRUE, FALSE>>, <<FALSE, TRUE>>}

\* Lifetimes and caches: K bound to a closure, to W or to itself, with any
\* lifetime; X (the key fNest resolves) and G (W's dependency) can be
\* singletons and serve as alias partners.
Next ==
  \/ \E cn \in {"None", "fNew", "fNest", "W"}, l \in Lifetimes :
       Bind("K", cn, l[1], l[2])
  \/ Bind("X", "fNew", TRUE, FALSE)
  \/ Bind("G", "None", TRUE, FALSE)
  \/ Instance("K", External("v"))
  \/ Alias("K", "X")
  \/ Alias("G", "K")
  \/ \E kw \in {NoKwargs, SomeKwargs} : Make("K", FALSE, kw)
  \/ Make("X", FALSE, NoKwargs)
  \/ ForgetInstance("K")
  \/ ForgetInstances
  \/ ForgetScopedInstances
  \/ Flush
  \/ DelItem("K")
  \/ Rebinding("K")
  \/ \E a \in {"holds", "fails"} : ResolveEnvironmentUsing(a)

Spec == Init /\ [][Next]_vars

\* Aliases: chains and cycles over K, X and G.
NextAlias ==
  \/ Bind("K", "fNew", TRUE, FALSE)
  \/ Bind("G", "None", TRUE, FALSE)
  \/ Instance("K", External("v"))
  \/ Alias("K", "X")
  \/ Alias("X", "K")
  \/ Alias("G", "K")
  \/ \E k \in {"K", "X", "G"} : Make(k, k \in Classes, NoKwargs)
  \/ ForgetInstance("K")
  \/ Flush

SpecAlias == Init /\ [][NextAlias]_vars

\* Builds: constructor injection, closures, contextual requests.
NextBuild ==
  \/ \E cn \in {"None", "fEcho", "fNew"}, sh \in BOOLEAN : Bind("G", cn, sh, FALSE)
  \/ Bind("K", "fNest", FALSE, FALSE)
  \/ Bind("X", "fEcho", FALSE, FALSE)
  \/ Instance("G", External("v"))
  \/ Alias("G", "X")
  \/ \E k \in {"K", "G", "W", "P"}, kw \in {NoKwargs, SomeKwargs} :
       Make(k, k \in Classes, kw)
  \/ Give("W", "G", "fEcho")
  \/ Flush

SpecBuild == Init /\ [][NextBuild]_vars

\* Lifetimes of one key K: conditional registration, get, the forgets.
NextLife ==
  \/ \E cn \in {"fNew", "W"}, l \in Lifetimes : Bind("K", cn, l[1], l[2])
  \/ \E sh \in BOOLEAN : BindIf("K", "fNew", sh)
  \/ BindIf("X", "fNew", TRUE)
  \/ Instance("K", External("v"))
  \/ Alias("K", "X")
  \/ Make("K", FALSE, NoKwargs)
  \/ \E k \in {"K", "X"} : Get(k, FALSE)
  \/ ForgetInstance("K")
  \/ ForgetInstances
  \/ ForgetScopedInstances
  \/ Flush
  \/ ResolveEnvironmentUsing("fails")

SpecLife == Init /\ [][NextLife]_vars

\* Callbacks: registrations under the global lists, the key K, the class
\* Impl and its ancestor I; K and I bound to Impl; rebinds of K.
NextCallbacks ==
  \/ \E a \in {"*", "K"} : BeforeResolving(a)
  \/ \E a \in {"*", "K", "Impl", "I"} : Resolving(a)
  \/ \E a \in {"*", "K", "Impl"} : AfterResolving(a)
  \/ Rebinding("K")
  \/ \E sh \in BOOLEAN : Bind("K", "Impl", sh, FALSE)
  \/ Bind("I", "Impl", FALSE, FALSE)
  \/ Make("K", FALSE, NoKwargs)
  \/ \E k \in {"Impl", "I"} : Make(k, TRUE, NoKwargs)

SpecCallbacks == Init /\ [][NextCallbacks]_vars

\* Array access and queries of one key K: every way of registering it,
\* K bound to the abstract class IC, the alias X, deletion, get.
NextAccess ==
  \/ \E cn \in {"fNew", "IC"}, l \in Lifetimes : Bind("K", cn, l[1], l[2])
  \/ \E v \in {"fNew", "v"} : SetItem("K", v)
  \/ Instance("K", External("v"))
  \/ \E al \in {"X", "K"} : Alias("K", al)
  \/ Make("K", FALSE, NoKwargs)
  \/ \E k \in {"K", "X"} : Get(k, FALSE)
  \/ \E k \in {"K", "X"} : DelItem(k)

SpecAccess == Init /\ [][NextAccess]_vars

\* Method invocation: call() on the method of an object and on the
\* "Class:method" string, with and without the explicit parameter; G and
\* Meth unbound or bound.
NextCall ==
  \/ \E sh \in BOOLEAN : Bind("G", "fNew", sh, FALSE)
  \/ \E sh \in BOOLEAN : Bind("Meth", "None", sh, FALSE)
  \/ \E isString \in BOOLEAN,
        parameters \in {NoKwargs, {<<"dependency", "5">>}, {<<"other", "5">>}} :
       Call(<<"Meth", "method">>, isString, parameters)
  \/ Call(<<"K", "method">>, TRUE, NoKwargs)
  \/ \E k \in {"G", "Meth"} : Make(k, TRUE, NoKwargs)
  \/ Flush

SpecCall == Init /\ [][NextCall]_vars

\* Explicit params for M(first, stub: G, last).
FirstOnly == {<<"first", "1">>}
LastOnly == {<<"last", "2">>}
FirstLastThird == {<<"first", "1">>, <<"last", "2">>, <<"third", "3">>}

\* Auto-wiring: makes of unbound classes whose constructor parameters are
\* typed, defaulted, abstract or bare; G, IC and the builtin str unbound or
\* bound; an unbound string key.
NextWire ==
  \/ \E sh \in BOOLEAN : Bind("G", "fNew", sh, FALSE)
  \/ Bind("IC", "None", FALSE, FALSE)
  \/ Bind("str", "fNew", FALSE, FALSE)
  \/ \E k \in {"W", "D", "N", "O", "Opt", "IC"} : Make(k, TRUE, NoKwargs)
  \/ \E kw \in {NoKwargs, FirstOnly, LastOnly, FirstLastThird} :
       Make("M", TRUE, kw)
  \/ Make("K", FALSE, NoKwargs)

SpecWire == Init /\ [][NextWire]_vars

\* Listeners of the event a, by name and catch-all, with every kind of
\* answer; dispatches with and without halt.
NextEvents ==
  \/ \E e \in {"a", "*"}, r \in Returns : Listen(e, r, FALSE)
  \/ \E halt \in BOOLEAN : Dispatch("a", halt)

SpecEvents == Init /\ [][NextEvents]_vars

\* Deferral: nested defer() calls that defer everything or only a, events
\* a and b dispatched inside and outside of them, a listener of a that
\* dispatches b.
NextDefer ==
  \/ \E e \in Events : Listen(e, "None", FALSE)
  \/ Listen("a", "None", TRUE)
  \/ \E e \in Events : Dispatch(e, FALSE)
  \/ Dispatch("a", TRUE)
  \/ \E events \in {DeferAll, {"a"}} : Defer(events)
  \/ DeferReturn
  \/ DeferRaise

SpecDefer == Init /\ [][NextDefer]_vars

\* Boot lifecycle: callbacks registered with booting() and booted() before
\* and after boot(), some of which register a booted callback themselves.
NextBoot ==
  \/ \E registers \in BOOLEAN : Booting(registers)
  \/ \E registers \in BOOLEAN : BootedCallback(registers)
  \/ Boot

SpecBoot == Init /\ [][NextBoot]_vars

\* Service providers: register() with a provider class or with an instance
\* the application holds, forced or not, before and after boot().
NextProviders ==
  \/ \E cls \in ProviderClasses, force \in BOOLEAN :
       RegisterProvider(ProviderClass(cls), force)
  \/ \E k \in DOMAIN service_providers, force \in BOOLEAN :
       RegisterProvider(service_providers[k], force)
  \/ Boot

SpecProviders == Init /\ [][NextProviders]_vars

\* The callback pipeline of one key: K bound to a closure with any
\* lifetime and rebound, X an alias of K, callbacks of every phase and
\* rebinding callbacks registered under K or under X, makes of K and X.
NextPipeline ==
  \/ \E l \in Lifetimes : Bind("K", "fNew", l[1], l[2])
  \/ Alias("K", "X")
  \/ \E a \in {"K", "X"} : BeforeResolving(a)
  \/ \E a \in {"K", "X"} : Resolving(a)
  \/ \E a \in {"K", "X"} : AfterResolving(a)
  \/ \E a \in {"K", "X"} : Rebinding(a)
  \/ \E k \in {"K", "X"} : Make(k, FALSE, NoKwargs)

SpecPipeline == Init /\ [][NextPipeline]_vars

\* Makes that fail: K bound with any lifetime to a closure or to the class
\* M, whose first parameter cannot be resolved; callbacks of K that raise
\* in each phase and one that returns; makes of K and of the unknown X.
NextRaise ==
  \/ \E cn \in {"fNew", "M"}, l \in Lifetimes : Bind("K", cn, l[1], l[2])
  \/ \E op \in {"before_resolving", "resolving", "after_resolving"} :
       RaisingCallback(op, "K")
  \/ Resolving("K")
  \/ \E k \in {"K", "X"} : Make(k, FALSE, NoKwargs)

SpecRaise == Init /\ [][NextRaise]_vars

\* defer() ending in every way: nested defer() calls, a listener of a that
\* returns and a listener of b that raises, callbacks that return or
\* raise.
NextRestore ==
  \/ Listen("a", "None", FALSE)
  \/ Listen("b", Raises, FALSE)
  \/ \E e \in Events : Dispatch(e, FALSE)
  \/ \E events \in {DeferAll, {"a"}} : Defer(events)
  \/ DeferReturn
  \/ DeferRaise

SpecRestore == Init /\ [][NextRestore]_vars

\* Callers of make(K) for the singleton K whose steps interleave, next to
\* callers that run make(K) from start to end.
NextThreads ==
  \/ Bind("K", "fNew", TRUE, FALSE)
  \/ Resolving("K")
  \/ \E t \in Callers : Enter(t, "K")
  \/ \E t \in Callers : CallerBuild(t)
  \/ \E t \in Callers : CallerWrite(t)
  \/ \E t \in Callers : CallerReturn(t)
  \/ Make("K", FALSE, NoKwargs)

SpecThreads == Init /\ [][NextThreads]_vars

\* ------------------------------------------------------------------ claims
\* A step that is a top-level make(abstract) without explicit params.
MadeNow(abstract) ==
  /\ ops' = ops - 1
  /\ last'.op = "make"
  /\ last'.name = abstract
  /\ last'.kwargs = NoKwargs

\* A step that is a top-level make(abstract, **kwargs) with explicit params.
MadeWithNow(abstract) ==
  /\ ops' = ops - 1
  /\ last'.op = "make"
  /\ last'.name = abstract
  /\ last'.kwargs # NoKwargs

\* The object passed for a constructor parameter of a built object.
HasDep(obj, name) == \E d \in obj.deps : d[1] = name
Dep(obj, name) == (CHOOSE d \in obj.deps : d[1] = name)[2]

\* What evaluating a concrete can produce.
ProducedBy(concrete, obj) ==
  CASE concrete \in Classes -> obj.cls = concrete
    [] concrete = "fNew" -> obj.cls = "G"
    [] concrete = "fEcho" -> obj.cls = "dict"
    [] concrete = "fNest" -> TRUE
    [] OTHER -> obj = Literal(concrete)

\* C1: for a key K bound via singleton, two make(K) calls without explicit
\* params, with no bind/instance/forget/flush/delete touching K between
\* them, return the identical instance.
C1_SingletonIdentity ==
  [][\A k \in Names :
       (/\ MadeNow(k)
        /\ k \in DOMAIN bindings /\ bindings[k].shared
        /\ k \in DOMAIN made)
       => (last'.err = "" /\ last'.ret = made[k])]_vars

\* C2: once bind(K, B) has replaced K's binding, no cache entry of K written
\* before that bind is left, and a make(K) returns what B produces (or the
\* object registered since with instance), never an instance of the binding
\* replaced.
C2_RebindInvalidation ==
  /\ \A e \in stale : e[2] \notin DOMAIN bindings
  /\ (/\ last.op = "make" /\ last.err = ""
      /\ last.name \in DOMAIN bindings
      /\ last.name \notin DOMAIN aliases
      /\ ~(last.name \in DOMAIN instances /\ instances[last.name].cls = "object"))
     => ProducedBy(bindings[last.name].concrete, last.ret)

\* C2 witness: K had a cached instance when it was rebound to W, and the
\* make(K) after the rebind has built a W.
C2_Witness ==
  /\ "K" \in invalidated
  /\ last.op = "make" /\ last.name = "K" /\ last.err = ""
  /\ bindings["K"].concrete = "W" /\ last.ret.cls = "W"

\* C3: make on classes whose constructors need each other ends in a
\* circular-dependency error and never in unbounded recursion.
C3_CycleDetection ==
  /\ last.err # RecErr
  /\ (last.op = "make" /\ last.name = "P")
       => last.err = "CircularDependencyException"

\* C4: the alias table never holds a cycle: get_alias ends on every name.
C4_AliasAcyclic == \A n \in Names : get_alias(Cont, n) # RecErr

\* The names of the alias chain hanging on alias(k, x): k itself and every
\* name whose alias path runs through x.
RECURSIVE ReachesVia(_, _, _)
ReachesVia(n, x, hops) ==
  \/ n = x
  \/ (hops > 0 /\ n \in DOMAIN aliases /\ ReachesVia(aliases[n], x, hops - 1))
ChainOf(k, x) == {k} \cup {n \in Names : ReachesVia(n, x, Cardinality(Names))}

\* C5: with alias(K, X) in force for a shared or instance-bound K, make on
\* every name of the chain succeeds and two successive makes on names of
\* the chain return the same instance.
C5_AliasTransparency ==
  [][\A x \in DOMAIN aliases : \A n \in ChainOf(aliases[x], x) :
       (MadeNow(n) /\ is_shared(Cont, aliases[x]))
       => /\ last'.err = ""
          /\ (/\ last.op = "make" /\ last.kwargs = NoKwargs /\ last.err = ""
              /\ last.name \in ChainOf(aliases[x], x))
             => last'.ret = last.ret]_vars

\* C6: once when(W).needs(G).give(I) has been requested and G has a global
\* binding, building W gives it the I-built dependency.
C6_ContextualOverride ==
  (/\ last.op = "make" /\ last.name = "W"
   /\ <<"W", "G", "fEcho">> \in contextual
   /\ "G" \in DOMAIN bindings /\ "G" \notin DOMAIN aliases)
  => (/\ last.err = ""
      /\ HasDep(last.ret, "stub")
      /\ ProducedBy("fEcho", Dep(last.ret, "stub")))

\* The nested results of a build: the dependencies the container resolved
\* (those not given explicitly) or, for the closure that resolves another
\* key, the object that key gave.
NestedPart(obj, kwargs) == {d \in obj.deps : ~HasKwarg(kwargs, d[1])}

\* C7: the explicit params of make(K, ...) reach only K's own closure or
\* constructor: what the nested makes return is what they return when the
\* outer call has no params, and a closure resolved by a nested make sees
\* empty kwargs.
C7_ParamsIsolation ==
  [][\A n \in Names :
       (MadeWithNow(n) /\ last'.err = "")
       => LET plain == resolve(Cont, n, n \in Classes, NoKwargs, MaxDepth)
              key == get_alias(Cont, n)
              viaNest == key \in DOMAIN bindings
                           /\ bindings[key].concrete = "fNest"
          IN /\ \A d \in NestedPart(last'.ret, last'.kwargs) :
                  d[2].cls = "dict" => d[2].kw = NoKwargs
             /\ (viaNest /\ last'.ret.cls = "dict") => last'.ret.kw = NoKwargs
             /\ (plain.err = "" /\ plain.how = "built")
                  => /\ NestedPart(last'.ret, last'.kwargs) = plain.ret.deps
                     /\ viaNest => last'.ret = plain.ret]_vars

\* C7 witness: W was made with an explicit `default` while its dependency G
\* is bound to the closure that returns its kwargs; the dependency is the
\* empty dict.
C7_Witness ==
  /\ last.op = "make" /\ last.name = "W" /\ last.err = ""
  /\ last.kwargs = SomeKwargs
  /\ HasDep(last.ret, "default")
  /\ HasDep(last.ret, "stub")
  /\ Dep(last.ret, "stub").cls = "dict"
  /\ Dep(last.ret, "stub").kw = NoKwargs

\* C8: while instance(K, v) is in force, make(K) without explicit params
\* returns v itself.
C8_InstanceIsShared ==
  (/\ last.op = "make" /\ last.kwargs = NoKwargs
   /\ last.name \notin DOMAIN aliases
   /\ last.name \in DOMAIN instances
   /\ instances[last.name] = External("v"))
  => (last.err = "" /\ last.ret = External("v"))

\* K's own entry of a cache is the same before and after the step.
SameEntry(before, after, k) ==
  IF k \in DOMAIN before
    THEN k \in DOMAIN after /\ after[k] = before[k]
    ELSE k \notin DOMAIN after

\* The instance a parameterless make(k) is served from the caches.
Cached(k) ==
  IF k \in DOMAIN scoped_instances THEN scoped_instances[k] ELSE instances[k]

\* A make(k, params) that succeeds on k's own singleton or scoped binding.
MadeWithOnCaching(k) ==
  /\ MadeWithNow(k)
  /\ last'.err = ""
  /\ k \notin DOMAIN aliases
  /\ k \in DOMAIN bindings
  /\ (bindings[k].shared \/ bindings[k].scoped)

\* C9 as stated: a make(K, params) on a singleton or scoped binding builds
\* a fresh instance and leaves both caches unchanged.
C9_Original ==
  [][\A k \in Names :
       MadeWithOnCaching(k)
       => /\ last'.how \in {"built", "literal"}
          /\ instances' = instances
          /\ scoped_instances' = scoped_instances]_vars

\* C9: a make(K, params) on K's singleton or scoped binding is not served
\* from a cache: it evaluates K's concrete again (a class concrete gives a
\* new object), leaves K's own entries of both caches as they were, and a
\* parameterless make(K) afterwards still returns the instance cached
\* before.
C9_ParamsBypassCache ==
  [][\A k \in Names :
       MadeWithOnCaching(k)
       => /\ last'.how \in {"built", "literal"}
          /\ bindings[k].concrete \in Classes
               => (last'.ret.cls = bindings[k].concrete
                     /\ last'.ret.id >= nextId)
          /\ SameEntry(instances, instances', k)
          /\ SameEntry(scoped_instances, scoped_instances', k)
          /\ (k \in DOMAIN instances \cup DOMAIN scoped_instances)
               => LET later == resolve(Cont', k, FALSE, NoKwargs, MaxDepth)
                  IN later.err = "" /\ later.ret = Cached(k)]_vars

\* C9 witness: K is a singleton bound to W with a cached instance, and
\* make(K, default=...) has returned another W.
C9_Witness ==
  /\ last.op = "make" /\ last.name = "K" /\ last.err = ""
  /\ last.kwargs = SomeKwargs
  /\ "K" \notin DOMAIN aliases
  /\ "K" \in DOMAIN bindings /\ bindings["K"].shared
  /\ bindings["K"].concrete = "W"
  /\ "K" \in DOMAIN instances
  /\ last.ret.cls = "W" /\ last.ret # instances["K"]

ResolvedNow(k) ==
  /\ ops' = ops - 1
  /\ last'.op \in {"make", "get"}
  /\ last'.name = k
  /\ last'.kwargs = NoKwargs

\* Concretes that construct an object each time they are evaluated.
Constructs(concrete) == concrete \in Classes \cup {"fNew", "fEcho"}

\* C11: for a key K whose registration is a scoped bind, make(K) and get(K)
\* without params succeed and return the instance the previous make/get of
\* K returned, also when the environment resolver was replaced in between;
\* the first make/get after forget_scoped_instances() builds a new object.
C11_ScopedIdentity ==
  [][\A k \in Names :
       (ResolvedNow(k) /\ k \in intact /\ bindings[k].scoped)
       => /\ last'.err = ""
          /\ k \in DOMAIN made => last'.ret = made[k]
          /\ (last.op = "forget_scoped_instances"
                /\ Constructs(bindings[k].concrete))
               => (last'.how = "built" /\ last'.ret.id >= nextId)]_vars

\* C11 witness: after the environment resolver was replaced by one that
\* answers false, get(K) on the scoped K has returned the cached instance.
C11_Witness ==
  /\ last.op = "get" /\ last.name = "K" /\ last.err = ""
  /\ "K" \in intact /\ bindings["K"].scoped
  /\ environment_resolver = "fails"
  /\ last.how = "scoped"
  /\ "K" \in DOMAIN made /\ made["K"] = last.ret

\* A step or state in which the operation is forget_instance(k) or
\* forget_instances().
Forgot(l, k) ==
  \/ (l.op = "forget_instance" /\ l.name = k)
  \/ l.op = "forget_instances"

\* C12: forget_instance(K) and forget_instances() leave no singleton-cache
\* entry for K and keep the bindings; on a K whose registration is a
\* singleton bind the next make(K) builds a new object and caches it.
C12_ForgetShared ==
  [][\A k \in Names :
       /\ (ops' = ops - 1 /\ Forgot(last', k))
            => (k \notin DOMAIN instances' /\ bindings' = bindings)
       /\ (/\ MadeNow(k) /\ Forgot(last, k)
           /\ k \in intact /\ bindings[k].shared
           /\ Constructs(bindings[k].concrete))
            => /\ last'.err = "" /\ last'.how = "built"
               /\ last'.ret.id >= nextId
               /\ k \in DOMAIN instances' /\ instances'[k] = last'.ret]_vars

\* C12 witness: the singleton K has been built a second time without any
\* bind having dropped its first instance, and the new object is cached.
C12_Witness ==
  /\ last.op = "make" /\ last.name = "K" /\ last.how = "built"
  /\ "K" \in intact /\ bindings["K"].shared
  /\ "K" \notin invalidated
  /\ last.ret.id >= 2
  /\ "K" \in DOMAIN instances /\ instances["K"] = last.ret

\* C13: right after flush(), bound, has, resolved, is_alias, is_shared and
\* is_scoped are false for every name.
C13_FlushCompleteness ==
  last.op = "flush"
  => \A n \in Names :
       /\ ~bound(Cont, n) /\ ~has(Cont, n) /\ ~resolved_of(Cont, n)
       /\ ~is_alias(Cont, n) /\ ~is_shared(Cont, n) /\ ~is_scoped(Cont, n)

\* C13 witness: flush() has run on a container in which objects had been
\* built.
C13_Witness == last.op = "flush" /\ nextId > 1 /\ ~bound(Cont, "K")

\* C14 as stated: a key with a transient binding that has not been
\* instance-bound never reports resolved.
C14_Original ==
  \A k \in intact :
    (~bindings[k].shared /\ ~bindings[k].scoped) => ~resolved_of(Cont, k)

\* C14: once make/get(K) has built K, resolved(K) is true whatever the
\* lifetime of the binding, and further make/get calls keep it true.
C14_ResolvedAfterBuild ==
  [][\A k \in Names :
       /\ (ResolvedNow(k) /\ last'.err = ""
             /\ last'.how \in {"built", "literal"})
            => resolved_of(Cont', k)
       /\ (resolved_of(Cont, k) /\ ops' = ops - 1
             /\ last'.op \in {"make", "get"})
            => resolved_of(Cont', k)]_vars

\* C14 witness: K has a transient binding, make(K) has built it and
\* resolved(K) is true.
C14_Witness ==
  /\ last.op = "make" /\ last.name = "K" /\ last.how = "built"
  /\ "K" \in intact
  /\ ~bindings["K"].shared /\ ~bindings["K"].scoped
  /\ "K" \notin DOMAIN instances
  /\ resolved_of(Cont, "K")

\* C20: bind_if(K, ...) and singleton_if(K, ...) on a K that is bound (by a
\* binding, an alias or a cached or registered instance) change no
\* binding, alias, cache entry or resolved flag and fire nothing; on a K
\* that is not bound they are bind(K, ...) / singleton(K, ...).
C20_BindIfNoOp ==
  [][\A k \in Names, sh \in BOOLEAN :
       BindIf(k, "fNew", sh)
       => IF bound(Cont, k)
            THEN /\ UNCHANGED << bindings, aliases, instances,
                                 scoped_instances, resolved >>
                 /\ fired' = << >>
            ELSE Bind(k, "fNew", sh, FALSE)]_vars

\* C20 witness: singleton_if(X, ...) has run while X was bound only as an
\* alias, and X has no binding.
C20_Witness ==
  /\ last.op = "bind_if" /\ last.name = "X"
  /\ "X" \in DOMAIN aliases
  /\ "X" \notin DOMAIN bindings

\* The entries of a log that belong to the outermost call.
IsTop(e) == e.depth = MaxDepth
TopOf(log) == SelectSeq(log, IsTop)

\* The callbacks of one list that a log shows, in the order they fired.
FiredFrom(log, ev, scope) ==
  LET pick(e) == e.ev = ev /\ e.scope = scope
      sub == SelectSeq(TopOf(log), pick)
  IN [i \in 1..Len(sub) |-> sub[i].cb]

\* How often a callback fired in a phase, for one instance.
TimesFired(log, ev, cb, obj) ==
  Cardinality({i \in 1..Len(log) :
                 log[i].ev = ev /\ log[i].cb = cb /\ log[i].obj = obj})

\* Where an entry stands in one resolution: the before phase, the build,
\* the resolving phase, the after phase, global lists first in each.
Rank(e) ==
  CASE e.ev = "before" -> IF e.scope = "*" THEN 1 ELSE 2
    [] e.ev = "build" -> 3
    [] e.ev = "built" -> 4
    [] e.ev = "resolving" -> IF e.scope = "*" THEN 5 ELSE 6
    [] e.ev = "after" -> IF e.scope = "*" THEN 7 ELSE 8
    [] OTHER -> 0

\* The last operation was a make that built an instance.
BuiltByMake ==
  last.op = "make" /\ last.err = "" /\ last.how \in {"built", "literal"}

Range(seq) == {seq[i] : i \in 1..Len(seq)}

\* C15: in a make that builds, the before-resolving callbacks fire before
\* the build, the resolving callbacks after it and before the
\* after-resolving callbacks, global lists before key-specific ones in
\* each phase, and every list fires whole and in registration order.
C15_CallbackOrder ==
  BuiltByMake
  => LET T == TopOf(fired)
         key == get_alias(Cont, last.name)
     IN /\ \A i, j \in 1..Len(T) : i < j => Rank(T[i]) <= Rank(T[j])
        /\ FiredFrom(fired, "before", "*")
             = callbacks.global_before_resolving_callbacks
        /\ FiredFrom(fired, "before", key)
             = ListOf(callbacks.before_resolving_callbacks, key)
        /\ FiredFrom(fired, "resolving", "*")
             = callbacks.global_resolving_callbacks
        /\ FiredFrom(fired, "resolving", key)
             = ListOf(callbacks.resolving_callbacks, key)
        /\ FiredFrom(fired, "after", "*")
             = callbacks.global_after_resolving_callbacks
        /\ FiredFrom(fired, "after", key)
             = ListOf(callbacks.after_resolving_callbacks, key)

\* C15 witness: a make has built K while a before-resolving callback of K
\* was registered earlier than a global one; the global one fired first.
C15_Witness ==
  /\ BuiltByMake /\ last.name = "K"
  /\ \E i, j \in 1..Len(fired) :
       /\ i < j
       /\ fired[i].ev = "before" /\ fired[i].scope = "*"
       /\ fired[j].ev = "before" /\ fired[j].scope = "K"
       /\ fired[j].cb < fired[i].cb

\* C16: in a make that builds an instance of class C under key A, every
\* resolving callback registered under A, under C or under an ancestor of
\* C fires exactly once for the instance, and the callbacks registered
\* under any other key do not fire.
C16_ResolvingOncePerKey ==
  BuiltByMake
  => LET key == get_alias(Cont, last.name)
         related == {key} \cup Range(Mro(last.ret.cls))
     IN \A scope \in DOMAIN callbacks.resolving_callbacks :
          \A cb \in Range(callbacks.resolving_callbacks[scope]) :
            TimesFired(fired, "resolving", cb, last.ret)
              = IF scope \in related THEN 1 ELSE 0

\* C16 witness: make(Impl) has built an Impl under the class's own key
\* while resolving callbacks were registered under Impl and under I.
C16_Witness ==
  /\ BuiltByMake /\ last.name = "Impl" /\ last.ret.cls = "Impl"
  /\ "Impl" \in DOMAIN callbacks.resolving_callbacks
  /\ "I" \in DOMAIN callbacks.resolving_callbacks
  /\ \E i \in 1..Len(fired) :
       fired[i].ev = "resolving" /\ fired[i].scope = "I"

\* C17: in a make that builds an instance of class C under a key other
\* than C's, every after-resolving callback registered under C or under an
\* ancestor of C fires exactly once for the instance.
C17_AfterResolvingAncestors ==
  (BuiltByMake /\ get_alias(Cont, last.name) # last.ret.cls)
  => \A scope \in Range(Mro(last.ret.cls)) :
       \A cb \in Range(ListOf(callbacks.after_resolving_callbacks, scope)) :
         TimesFired(fired, "after", cb, last.ret) = 1

\* C18: a rebinding callback fires only inside a bind of its key that
\* found the key already bound; never in a first bind or in a make.
C18_RebindingOnlyOnRebind ==
  [][\A i \in 1..Len(fired') :
       fired'[i].ev = "rebinding"
       => /\ last'.op = "bind"
          /\ fired'[i].key = last'.name
          /\ last'.name \in DOMAIN bindings]_vars

\* C18 witness: a bind of K has fired K's rebinding callback.
C18_Witness ==
  /\ last.op = "bind" /\ last.name = "K"
  /\ \E i \in 1..Len(fired) : fired[i].ev = "rebinding" /\ fired[i].key = "K"

\* The resolving callbacks that concern an instance resolved under a key.
ResolvingFor(key, obj) ==
  Range(callbacks.global_resolving_callbacks)
    \cup UNION {Range(ListOf(callbacks.resolving_callbacks, scope)) :
                  scope \in {key} \cup Range(Mro(obj.cls))}

\* C19: a bind of an already bound K with a rebinding callback fires the
\* rebinding callback first, then builds K from the new binding and fires
\* each resolving callback exactly once for the new instance, all within
\* the bind; a bind of a K without rebinding callback builds nothing and
\* fires nothing.
C19_EagerReresolve ==
  [][\A k \in Names :
       (ops' = ops - 1 /\ last'.op = "bind" /\ last'.name = k)
       => IF k \in DOMAIN bindings /\ k \in rebinding_callbacks
            THEN last'.err = ""
                 => /\ fired'[1].ev = "rebinding"
                    /\ \E i \in 2..Len(fired') :
                         /\ fired'[i].ev = "built" /\ fired'[i].key = k
                         /\ fired'[i].obj = last'.ret
                         /\ \A j \in 1..Len(fired') :
                              fired'[j].ev = "resolving" => i < j
                    /\ last'.ret.id >= nextId
                    /\ ProducedBy(bindings'[k].concrete, last'.ret)
                    /\ \A cb \in ResolvingFor(k, last'.ret) :
                         TimesFired(fired', "resolving", cb, last'.ret) = 1
            ELSE fired' = << >> /\ nextId' = nextId]_vars

\* C19 witness: a bind of K has fired the rebinding callback and then a
\* resolving callback for the instance it built.
C19_Witness ==
  /\ last.op = "bind" /\ last.name = "K" /\ last.err = ""
  /\ Len(fired) >= 3
  /\ fired[1].ev = "rebinding"
  /\ fired[Len(fired)].ev = "resolving"
  /\ fired[Len(fired)].obj = last.ret

\* The container state alias() could touch.
ContainerState ==
  << bindings, instances, aliases, resolved, scoped_instances,
     rebinding_callbacks, environment_resolver, callbacks >>

\* C21: alias(K, X) raises an error when X equals K or when K is not
\* bound, and in both cases the alias table and the rest of the container
\* state are unchanged.
C21_AliasRejectsInvalid ==
  [][\A a \in {"K", "X"}, al \in {"K", "X"} :
       (Alias(a, al) /\ (al = a \/ ~bound(Cont, a)))
       => (/\ last'.op = "alias"
           /\ last'.err = ValErr
           /\ UNCHANGED ContainerState)]_vars

\* A self-alias of the bound key K has just been rejected.
C21_Witness ==
  /\ last.op = "alias" /\ last.name = "K" /\ last.err = ValErr
  /\ "K" \in DOMAIN bindings
  /\ aliases = Empty

\* C22: if has(id) returns true then get(id) never raises
\* EntryNotFoundException; it returns an entry or raises another error.
C22_HasThenGetFound ==
  [][\A id \in {"K", "X"} :
       (/\ ops' = ops - 1 /\ last'.op = "get" /\ last'.name = id
        /\ has(Cont, id))
       => last'.err # ENF]_vars

\* C28: after del container[K] the key K is no longer bound: bound(K),
\* has(K) and `K in container` are false, however K was registered (bind,
\* singleton, scoped, instance, item assignment; K is not an alias name) or
\* resolved before.
C28_DeleteUnbinds ==
  [][\A k \in {"K", "X"} :
       (/\ ops' = ops - 1 /\ last'.op = "delitem" /\ last'.name = k
        /\ ~is_alias(Cont, k))
       => (~bound(Cont', k) /\ ~has(Cont', k))]_vars

\* C23: call(callable or "Type:method", params) invokes the target with
\* the given params and fills every remaining typed parameter by resolving
\* its type through the container, as constructor injection does: here the
\* parameter `dependency: G`, left out of params, receives a G.
C23_CallInjects ==
  [][(/\ ops' = ops - 1 /\ last'.op = "call" /\ last'.name = "method"
      /\ last'.kwargs = NoKwargs)
     => (last'.err = "" /\ last'.ret.cls = "G")]_vars

\* A step that is a top-level make(cls) of a class, with or without params.
MadeClass(cls) ==
  /\ ops' = ops - 1
  /\ last'.op = "make"
  /\ last'.name = cls

\* The object is one the step created.
FreshNow(obj) == obj.id >= nextId /\ obj.id < nextId'

\* The typed constructor parameters of cls that always go through make().
TypedParams(cls) ==
  {CtorParams(cls)[i] : i \in
     {j \in DOMAIN CtorParams(cls) :
        CtorParams(cls)[j].ann \in Classes /\ ~CtorParams(cls)[j].hasDefault}}

\* What a make through the bindings of this universe returns for a bound
\* type: the cached or newly built product of its concrete.
ThroughBinding(ann, obj) ==
  /\ ProducedBy(bindings[ann].concrete, obj)
  /\ is_shared(Cont, ann) => instances'[ann] = obj

\* C24: make(W) for a concrete class W with no binding builds W, resolving
\* each typed constructor parameter recursively (bound types through their
\* binding, unbound concrete classes by auto-wiring a fresh instance),
\* without adding any binding or alias and without caching W or its
\* auto-wired dependencies; an unbound string key or an unbound abstract
\* class raises EntryNotFound instead.
C24_AutoWiring ==
  [][/\ \A cls \in Classes \ {"IC"} :
          (MadeClass(cls) /\ ~bound(Cont, cls))
          => /\ bindings' = bindings /\ aliases' = aliases
             /\ cls \notin DOMAIN instances' \cup DOMAIN scoped_instances'
             /\ \A p \in TypedParams(cls) :
                  ~bound(Cont, p.ann)
                  => p.ann \notin DOMAIN instances' \cup DOMAIN scoped_instances'
             /\ last'.err = ""
                  => /\ last'.ret.cls = cls /\ FreshNow(last'.ret)
                     /\ \A p \in TypedParams(cls) :
                          /\ HasDep(last'.ret, p.name)
                          /\ IF bound(Cont, p.ann)
                               THEN ThroughBinding(p.ann, Dep(last'.ret, p.name))
                               ELSE /\ Dep(last'.ret, p.name).cls = p.ann
                                    /\ FreshNow(Dep(last'.ret, p.name))
             /\ last'.err # ""
                  => \/ \E p \in TypedParams(cls) :
                          resolve(Cont, p.ann, TRUE, NoKwargs, MaxDepth - 1).err # ""
                     \/ \E i \in DOMAIN CtorParams(cls) :
                          /\ CtorParams(cls)[i].ann \notin Classes
                          /\ ~CtorParams(cls)[i].hasDefault
                          /\ ~HasKwarg(last'.kwargs, CtorParams(cls)[i].name)
     /\ \A k \in StrKeys \cup {"IC"} :
          (MadeClass(k) /\ ~bound(Cont, k))
          => (last'.err = ENF /\ UNCHANGED ContainerState)]_vars

\* W has just been auto-wired with a fresh G while neither is bound.
C24_Witness ==
  /\ last.op = "make" /\ last.name = "W" /\ last.err = ""
  /\ ~bound(Cont, "W") /\ ~bound(Cont, "G")
  /\ last.ret.cls = "W"
  /\ HasDep(last.ret, "stub") /\ Dep(last.ret, "stub").cls = "G"
  /\ instances = Empty /\ bindings = Empty

\* The nested make _build does for the first constructor parameter of cls.
InnerMake(cls) ==
  resolve(Cont, CtorParams(cls)[1].ann, TRUE, NoKwargs, MaxDepth - 1)

\* C25: while building class O, when the recursive make of a typed
\* constructor parameter fails with EntryNotFound, the parameter takes its
\* default if it has one; if it has none, the outer make fails with an
\* error of the same kind that carries the inner error and the context
\* "while building [O]".
C25_FailedDependency ==
  [][\A cls \in {"D", "N", "Opt"} :
       (/\ MadeClass(cls) /\ ~bound(Cont, cls)
        /\ CtorParams(cls)[1].hasDefault => bound(Cont, CtorParams(cls)[1].ann)
        /\ InnerMake(cls).err = ENF)
       => IF CtorParams(cls)[1].hasDefault
            THEN /\ last'.err = "" /\ last'.ret.cls = cls
                 /\ ~HasDep(last'.ret, CtorParams(cls)[1].name)
            ELSE /\ last'.err = ENF
                 /\ last'.msg =
                      InnerMake(cls).msg \o << "while building", cls >>]_vars

\* make(N) has just failed on the abstract IC two levels down.
C25_Witness ==
  /\ last.op = "make" /\ last.name = "N" /\ last.err = ENF
  /\ last.msg = << "is not instantiable", "IC", "while building", "D",
                   "while building", "N" >>

\* The annotated parameter with a default of O, W and Opt: their last one.
DefaultedParam(cls) == CtorParams(cls)[Len(CtorParams(cls))]

\* A step that is a successful top-level make(cls) of the unbound class cls
\* without explicit params.
AutoWired(cls) ==
  /\ MadeClass(cls) /\ ~bound(Cont, cls)
  /\ last'.kwargs = NoKwargs /\ last'.err = ""

\* C26 as stated: a constructor parameter that has both a type annotation
\* and a default receives its default whenever its type is not bound in the
\* container, and receives the container-resolved instance of that type
\* once the type is bound.
C26_Original ==
  [][\A cls \in {"O", "W", "Opt"} :
       AutoWired(cls)
       => IF bound(Cont, DefaultedParam(cls).ann)
            THEN HasDep(last'.ret, DefaultedParam(cls).name)
            ELSE ~HasDep(last'.ret, DefaultedParam(cls).name)]_vars

\* C26: such a parameter receives its default whenever its type is not
\* bound, is a builtin type, or is bound but fails to resolve with
\* EntryNotFound; it receives the container-resolved instance when its
\* type is a bound class of the program that resolves.
C26_TypedDefault ==
  [][\A cls \in {"O", "W", "Opt"} :
       AutoWired(cls)
       => IF /\ bound(Cont, DefaultedParam(cls).ann)
             /\ DefaultedParam(cls).ann \in Classes
             /\ resolve(Cont, DefaultedParam(cls).ann, TRUE, NoKwargs,
                        MaxDepth - 1).err # ENF
            THEN /\ HasDep(last'.ret, DefaultedParam(cls).name)
                 /\ ThroughBinding(DefaultedParam(cls).ann,
                                   Dep(last'.ret, DefaultedParam(cls).name))
            ELSE ~HasDep(last'.ret, DefaultedParam(cls).name)]_vars

\* O has just been built with the bound G for its defaulted parameter.
C26_Witness ==
  /\ last.op = "make" /\ last.name = "O" /\ last.err = ""
  /\ "G" \in DOMAIN bindings /\ ~bound(Cont, "O")
  /\ HasDep(last.ret, "default") /\ Dep(last.ret, "default").cls = "G"

\* The names of the constructor arguments an object was built with.
DepNames(obj) == {d[1] : d \in obj.deps}

\* C27: when a constructor parameter has no explicit value, no resolvable
\* type annotation and no default, make raises an unresolvable-dependency
\* error (an EntryNotFoundException whose text is "Unresolvable
\* dependency") naming that parameter and the owning class; parameters are
\* examined in declaration order, so the error names the first such
\* parameter, and extra explicit params that match no constructor
\* parameter are ignored.
C27_UnresolvableParameter ==
  [][(MadeClass("M") /\ ~bound(Cont, "M"))
     => /\ last'.kwargs \in {NoKwargs, LastOnly}
            => /\ last'.err = ENF
               /\ last'.msg = << "Unresolvable dependency", "first", "M" >>
        /\ last'.kwargs = FirstOnly
            => /\ last'.err = ENF
               /\ last'.msg = << "Unresolvable dependency", "last", "M" >>
        /\ last'.kwargs = FirstLastThird
            => /\ last'.err = "" /\ last'.ret.cls = "M"
               /\ DepNames(last'.ret) = {"first", "stub", "last"}
               /\ Dep(last'.ret, "first") = Literal("1")
               /\ Dep(last'.ret, "last") = Literal("2")]_vars

\* make(M, first=1) has just failed naming `last`, the first parameter
\* left without a value.
C27_Witness ==
  /\ last.op = "make" /\ last.name = "M" /\ last.kwargs = FirstOnly
  /\ last.err = ENF
  /\ last.msg = << "Unresolvable dependency", "last", "M" >>

\* The listener invocations a step added.
NewDeliveries == SubSeq(delivered', Len(delivered) + 1, Len(delivered'))

\* A step that is a dispatch(event, ..) call of the program.
DispatchNow(event) ==
  /\ ops' = ops - 1
  /\ last'.op = "dispatch"
  /\ last'.name = event

\* The listeners of an event in the order dispatch hands them over.
ListenersOf(event) == ListOf(listeners, event) \o wildcards

\* The index of the listener after which no other runs: the first one
\* answering False, with halt the first one answering anything but None,
\* else the last one.
LastInvoked(list, halt) ==
  IF \E i \in DOMAIN list :
       list[i].returns = "False" \/ (halt /\ list[i].returns # "None")
    THEN CHOOSE i \in DOMAIN list :
           /\ list[i].returns = "False" \/ (halt /\ list[i].returns # "None")
           /\ \A j \in 1..(i - 1) :
                ~(list[j].returns = "False"
                  \/ (halt /\ list[j].returns # "None"))
    ELSE Len(list)

\* What dispatch answers when the listeners 1..n of the list have run.
ResponseOf(list, halt, n) ==
  IF halt
    THEN IF n > 0 /\ list[n].returns # "None"
           THEN ValueResponse(list[n].returns) ELSE ValueResponse("None")
    ELSE ListResponse([i \in 1..n |-> list[i].returns])

\* The stop rule of a dispatch that is not deferred: the listeners run in
\* the order of the list up to the first False (with halt: the first
\* answer that is not None), and the response says so.
StopRule(event) ==
  /\ Len(NewDeliveries) =
       LastInvoked(ListenersOf(event), response'.kind = "value")
  /\ \A i \in DOMAIN NewDeliveries :
       NewDeliveries[i].listener = ListenersOf(event)[i].id
  /\ response' = ResponseOf(ListenersOf(event), response'.kind = "value",
                            Len(NewDeliveries))

\* C30 as stated: during dispatch, listeners of an event run in
\* registration order; as soon as one returns exactly False no later
\* listener is invoked and the response list ends with that False,
\* whereas other falsy results do not stop propagation; with halt=True the
\* first non-None response is returned and no later listener is invoked.
C30_Original ==
  [][DispatchNow("a")
     => /\ StopRule("a")
        /\ \A i, j \in DOMAIN NewDeliveries :
             i < j => NewDeliveries[i].listener < NewDeliveries[j].listener]_vars

\* C30: the listeners registered for the event's name run first, in
\* registration order, then the catch-all listeners registered with
\* listen(callback), in registration order, whenever each was registered;
\* as soon as one returns exactly False no later listener is invoked and
\* the response list ends with that False, whereas other falsy results do
\* not stop propagation; with halt=True the first non-None response is
\* returned and no later listener is invoked.
C30_PropagationStop ==
  [][DispatchNow("a")
     => /\ StopRule("a")
        /\ \A i, j \in DOMAIN NewDeliveries :
             i < j =>
               LET NamedIds == {ListOf(listeners, "a")[k].id :
                                  k \in DOMAIN ListOf(listeners, "a")}
                   x == NewDeliveries[i].listener
                   y == NewDeliveries[j].listener
               IN \/ x \in NamedIds /\ y \notin NamedIds
                  \/ (x \in NamedIds <=> y \in NamedIds) /\ x < y]_vars

\* Three listeners of a answering 0, False and a value: the dispatch has
\* just run the first two and answered [0, False].
C30_Witness ==
  /\ last.op = "dispatch" /\ last.name = "a"
  /\ Len(ListOf(listeners, "a")) = 3
  /\ ListOf(listeners, "a")[1].returns = "0"
  /\ ListOf(listeners, "a")[2].returns = "False"
  /\ response = ListResponse(<< "0", "False" >>)
  /\ Len(delivered) = 2

\* The innermost defer() whose callback is running selects the event: it
\* defers all events, or the event is named in its events list.
SelectedByInnermost(event) ==
  /\ frames # << >>
  /\ \/ frames[Len(frames)].events = DeferAll
     \/ event \in frames[Len(frames)].events

\* The payloads of a queue of deferred events.
PayloadsOf(queue) == {queue[k][2] : k \in DOMAIN queue}

\* The payloads queued by the defer() calls that are running: the queue of
\* the innermost one and the queues the enclosing ones have set aside.
QueuedPayloads ==
  PayloadsOf(deferred_events)
    \cup UNION {PayloadsOf(frames[k].previous_deferred_events) :
                 k \in DOMAIN frames}

\* No queued event has reached a listener.
QueuedUndelivered ==
  \A j \in DOMAIN delivered : delivered[j].payload \notin QueuedPayloads

\* The place of a payload in a queue.
PlaceIn(queue, payload) == CHOOSE k \in DOMAIN queue : queue[k][2] = payload

\* A dispatch selected by the innermost defer reaches no listener and is
\* queued; any other dispatch reaches every listener of its event at once.
DeferredOrImmediate(event) ==
  IF SelectedByInnermost(event)
    THEN /\ delivered' = delivered
         /\ Len(deferred_events') = Len(deferred_events) + 1
         /\ SubSeq(deferred_events', 1, Len(deferred_events)) = deferred_events
         /\ deferred_events'[Len(deferred_events')][1] = event
         /\ deferred_events'[Len(deferred_events')][2] = payloads + 1
    ELSE /\ payloads + 1 \notin PayloadsOf(deferred_events')
         /\ \A i \in DOMAIN ListenersOf(event) :
              \E j \in DOMAIN NewDeliveries :
                /\ NewDeliveries[j].payload = payloads + 1
                /\ NewDeliveries[j].event = event
                /\ NewDeliveries[j].listener = ListenersOf(event)[i].id

\* When the callback of the innermost defer returns, its queued events
\* reach their listeners in dispatch order, and the queue of the enclosing
\* defer is back in place, untouched.
FlushedInOrder ==
  /\ \A k \in DOMAIN deferred_events :
       \A i \in DOMAIN ListenersOf(deferred_events[k][1]) :
         \E j \in DOMAIN NewDeliveries :
           /\ NewDeliveries[j].payload = deferred_events[k][2]
           /\ NewDeliveries[j].listener =
                ListenersOf(deferred_events[k][1])[i].id
  /\ \A i, j \in DOMAIN NewDeliveries :
       (/\ i < j
        /\ NewDeliveries[i].payload \in PayloadsOf(deferred_events)
        /\ NewDeliveries[j].payload \in PayloadsOf(deferred_events))
       => PlaceIn(deferred_events, NewDeliveries[i].payload)
            <= PlaceIn(deferred_events, NewDeliveries[j].payload)
  /\ deferred_events' = frames[Len(frames)].previous_deferred_events
  /\ frames' = SubSeq(frames, 1, Len(frames) - 1)

\* C29: an event dispatched while a defer callback is running, and
\* selected by the innermost active defer (all events, or those named in
\* its events list), is not delivered to any listener before that defer's
\* callback returns; when the callback returns, that defer's queued events
\* are delivered in dispatch order, while events queued by an enclosing
\* defer stay queued until the enclosing callback returns; events not
\* selected are delivered immediately.
C29_EventDeferral ==
  /\ []QueuedUndelivered
  /\ [][/\ \A event \in Events :
             (DispatchNow(event) => DeferredOrImmediate(event))
         /\ ((ops' = ops - 1 /\ last'.op = "defer_return")
               => FlushedInOrder)]_vars

\* The callback of an inner defer has just returned and its event reached
\* the listener, while the event the enclosing defer queued before is
\* still waiting.
C29_Witness ==
  /\ last.op = "defer_return"
  /\ Len(frames) = 1
  /\ Len(deferred_events) = 1
  /\ Len(delivered) = 1
  /\ delivered[1].payload > deferred_events[1][2]

\* How often the boot callback registered as number id has been invoked.
TimesInvoked(id) ==
  Cardinality({i \in DOMAIN invoked_callbacks : invoked_callbacks[i].id = id})

\* A step that is the application operation op.
AppStep(op) == ops' = ops - 1 /\ last'.op = op

\* Every booting callback has run at most once; no booted callback has run
\* before the application booted and each has run exactly once since; no
\* callback of the booting list ran after one of the booted list.
BootCallbacksOnce ==
  /\ \A i \in DOMAIN booting_callbacks :
       TimesInvoked(booting_callbacks[i].id) <= 1
  /\ \A i \in DOMAIN booted_callbacks :
       TimesInvoked(booted_callbacks[i].id) = (IF is_booted THEN 1 ELSE 0)
  /\ \A i, j \in DOMAIN invoked_callbacks :
       (i < j) => ~(/\ invoked_callbacks[i].list = "booted"
                    /\ invoked_callbacks[j].list = "booting")

\* C31: across any sequence of booting(), booted() and boot() calls whose
\* callbacks return, every booting callback is invoked at most once and
\* every booted callback exactly once after the first boot(); booting
\* callbacks run before booted callbacks; a boot() of a booted application
\* invokes nothing; booted(callback) on a booted application invokes that
\* callback at once.
C31_BootLifecycle ==
  /\ []BootCallbacksOnce
  /\ [][/\ (is_booted /\ AppStep("boot"))
             => (invoked_callbacks' = invoked_callbacks)
        /\ (is_booted /\ AppStep("booted"))
             => (/\ Len(invoked_callbacks') > Len(invoked_callbacks)
                 /\ invoked_callbacks'[Len(invoked_callbacks) + 1] =
                      [list |-> "booted", id |-> NextBootCallback(App)])
        /\ (~is_booted /\ AppStep("boot"))
             => (/\ is_booted'
                 /\ \A i \in DOMAIN booting_callbacks :
                      TimesInvoked(booting_callbacks[i].id)' = 1)]_vars

\* Witness for C31: a booted callback given to a booted application, after
\* a boot() that ran a booting callback and a booted callback that itself
\* registered one more.
C31_Witness ==
  /\ last.op = "booted"
  /\ is_booted
  /\ Len(booting_callbacks) >= 1
  /\ \E i \in DOMAIN booted_callbacks :
       /\ booted_callbacks[i].registers
       /\ i + 1 < Len(booted_callbacks)
  /\ invoked_callbacks[Len(invoked_callbacks)].id =
       booted_callbacks[Len(booted_callbacks)].id
  /\ invoked_callbacks[1].list = "booting"

\* The providers of class cls the application holds as registered.
RegisteredOf(cls) ==
  {service_providers[k] : k \in {j \in DOMAIN service_providers :
                                   service_providers[j].cls = cls}}

\* The instance the first registration of cls created.
FirstRegistered(cls) ==
  CHOOSE p \in RegisteredOf(cls) : \A q \in RegisteredOf(cls) : p.id <= q.id

\* C39: register(P) without force, for a provider class P that is already
\* registered, returns the instance the first registration created, creates
\* no instance and does not call register() again.
C39_RegisterIdempotent ==
  [][\A cls \in ProviderClasses :
       (RegisteredOf(cls) # {} /\ RegisterProvider(ProviderClass(cls), FALSE))
         => (/\ registered' = FirstRegistered(cls)
             /\ provider_log' = provider_log)]_vars

\* The key holds a cached scoped or singleton instance.
HasCached(key) == key \in DOMAIN scoped_instances \cup DOMAIN instances

\* C32: a make(k) without explicit params that finds a cached scoped or
\* singleton instance under k's canonical key (its before-resolving
\* callbacks have returned) has fired the before-resolving callbacks (the
\* global list, then the key's), returns the cached instance, builds
\* nothing, fires no resolving or after-resolving callback and leaves the
\* caches as they are.
C32_CacheHitShortCircuit ==
  [][\A k \in {"K", "X"} :
       (/\ MadeNow(k) /\ HasCached(get_alias(Cont, k))
        /\ last'.err # CallbackErr)
       => (/\ last'.err = ""
           /\ last'.ret = Cached(get_alias(Cont, k))
           /\ nextId' = nextId
           /\ \A i \in 1..Len(fired') : fired'[i].ev = "before"
           /\ FiredFrom(fired', "before", "*")
                = callbacks.global_before_resolving_callbacks
           /\ FiredFrom(fired', "before", get_alias(Cont, k))
                = ListOf(callbacks.before_resolving_callbacks,
                         get_alias(Cont, k))
           /\ Len(fired') =
                Len(callbacks.global_before_resolving_callbacks)
                + Len(ListOf(callbacks.before_resolving_callbacks,
                             get_alias(Cont, k)))
           /\ UNCHANGED << instances, scoped_instances, resolved >>)]_vars

\* C32 witness: a make has returned K's cached singleton and fired only
\* K's before-resolving callback, although K has a resolving callback.
C32_Witness ==
  /\ last.op = "make" /\ last.name = "K" /\ last.how = "shared"
  /\ last.ret = instances["K"]
  /\ Len(fired) = 1 /\ fired[1].ev = "before" /\ fired[1].scope = "K"
  /\ "K" \in DOMAIN callbacks.resolving_callbacks

\* A step that is the registration op(name, callback).
RegisteredNow(op, name) ==
  /\ ops' = ops - 1
  /\ last'.op = op
  /\ last'.name = name
  /\ last'.err = ""

\* The callback the step registered is the last of the list of `key` in
\* the table, and no other list of the table changed.
StoredUnder(table, key) ==
  /\ callbacks'[table] =
       Put(callbacks[table], key,
           Append(ListOf(callbacks[table], key), NextCallback))
  /\ \A other \in DOMAIN callbacks \ {table} :
       callbacks'[other] = callbacks[other]

\* C33: while X is an alias of K, a callback registered under X with
\* before_resolving, resolving or after_resolving is appended to the list
\* of K's canonical key and a rebinding callback registered under X is
\* K's; and every make of K, through K or through X, fires the whole
\* before-resolving list of K and, when it builds, the whole resolving and
\* after-resolving lists of K, and every rebind of K fires K's rebinding
\* callback.
C33_CallbacksThroughAlias ==
  [][/\ \A op \in {"before_resolving", "resolving", "after_resolving"} :
          (RegisteredNow(op, "X") /\ is_alias(Cont, "X"))
          => StoredUnder(op \o "_callbacks", get_alias(Cont, "X"))
     /\ (RegisteredNow("rebinding", "X") /\ is_alias(Cont, "X"))
          => (rebinding_callbacks' =
                rebinding_callbacks \cup {get_alias(Cont, "X")})
     /\ \A k \in {"K", "X"} :
          (/\ MadeNow(k) /\ get_alias(Cont, k) = "K"
           /\ "K" \in DOMAIN bindings)
          => (/\ last'.err = ""
              /\ FiredFrom(fired', "before", "K")
                   = ListOf(callbacks.before_resolving_callbacks, "K")
              /\ (last'.how = "built")
                   => (/\ FiredFrom(fired', "resolving", "K")
                            = ListOf(callbacks.resolving_callbacks, "K")
                       /\ FiredFrom(fired', "after", "K")
                            = ListOf(callbacks.after_resolving_callbacks,
                                     "K")))
     /\ (/\ ops' = ops - 1 /\ last'.op = "bind" /\ last'.name = "K"
         /\ "K" \in DOMAIN bindings /\ "K" \in rebinding_callbacks)
          => (Len(fired') >= 1 /\ fired'[1].ev = "rebinding"
              /\ fired'[1].key = "K")]_vars

\* C33 witness: a make through the alias X has built K and fired the
\* resolving callback kept under K, while no list is kept under X.
C33_Witness ==
  /\ last.op = "make" /\ last.name = "X" /\ last.how = "built"
  /\ "X" \in DOMAIN aliases /\ aliases["X"] = "K"
  /\ "X" \notin DOMAIN callbacks.resolving_callbacks
  /\ \E i \in 1..Len(fired) :
       fired[i].ev = "resolving" /\ fired[i].scope = "K"

\* The positions of a log at which the outermost call finished building
\* an instance.
BuiltAt(log) == {i \in 1..Len(log) : log[i].ev = "built" /\ IsTop(log[i])}

\* The callbacks of one phase registered for a key: the global list and
\* the key's own.
PhaseCallbacks(global, table, key) ==
  Range(callbacks[global]) \cup Range(ListOf(callbacks[table], key))

\* In the log, the instance built at position i has received every
\* resolving callback of its key exactly once.
ResolvingOnce(log, i) ==
  \A cb \in PhaseCallbacks("global_resolving_callbacks",
                           "resolving_callbacks", log[i].key) :
    TimesFired(log, "resolving", cb, log[i].obj) = 1

\* In the log, the instance built at position i has received every
\* after-resolving callback of its key exactly once, each after all of its
\* resolving callbacks.
AfterResolvingOnce(log, i) ==
  /\ \A cb \in PhaseCallbacks("global_after_resolving_callbacks",
                              "after_resolving_callbacks", log[i].key) :
       TimesFired(log, "after", cb, log[i].obj) = 1
  /\ \A m, n \in 1..Len(log) :
       (/\ log[m].ev = "after" /\ log[n].ev = "resolving"
        /\ log[m].obj = log[i].obj /\ log[n].obj = log[i].obj) => n < m

\* C34 as stated: every instance built in a make or in the eager
\* re-resolution of a rebinding bind receives, within that operation and
\* so before any later make returns it from the cache, the resolving and
\* then the after-resolving callbacks of its key, each exactly once.
C34_Original ==
  [][(ops' = ops - 1 /\ last'.op \in {"make", "bind"} /\ last'.err = "")
       => \A i \in BuiltAt(fired') :
            ResolvingOnce(fired', i) /\ AfterResolvingOnce(fired', i)]_vars

\* C34, amended: every instance a make builds and returns has received the
\* resolving and then the after-resolving callbacks of its key, each
\* exactly once; the instance built by the eager re-resolution of a
\* rebinding bind has received the resolving callbacks of its key exactly
\* once and no after-resolving callback.
C34_Pipeline ==
  [][/\ (ops' = ops - 1 /\ last'.op = "make" /\ last'.err = "")
          => \A i \in BuiltAt(fired') :
               ResolvingOnce(fired', i) /\ AfterResolvingOnce(fired', i)
     /\ (ops' = ops - 1 /\ last'.op = "bind" /\ last'.err = "")
          => (/\ \A i \in BuiltAt(fired') : ResolvingOnce(fired', i)
              /\ \A m \in 1..Len(fired') : fired'[m].ev # "after")]_vars

\* C34 witness: a rebinding bind has built and cached a singleton K and
\* fired no callback of the after-resolving phase, although K has one.
C34_Witness ==
  /\ last.op = "bind" /\ last.name = "K" /\ last.err = ""
  /\ BuiltAt(fired) # {}
  /\ "K" \in DOMAIN instances /\ instances["K"] = last.ret
  /\ "K" \in DOMAIN callbacks.after_resolving_callbacks
  /\ \A m \in 1..Len(fired) : fired[m].ev # "after"

\* C35: a make(K) that raises, whatever the reason (missing entry,
\* unresolvable parameter, an exception of a before-resolving, resolving or
\* after-resolving callback), leaves K without a new entry in the singleton
\* cache and in the scoped cache and does not newly mark K resolved.
C35_NoCacheWriteOnFailure ==
  [][\A k \in {"K", "X"} :
       (MadeNow(k) /\ last'.err # "")
       => (/\ (k \in DOMAIN instances')
                => (k \in DOMAIN instances /\ instances'[k] = instances[k])
           /\ (k \in DOMAIN scoped_instances')
                => (/\ k \in DOMAIN scoped_instances
                    /\ scoped_instances'[k] = scoped_instances[k])
           /\ (k \in resolved') => (k \in resolved))]_vars

\* C36: no name is at once an entry of the alias table and a key with a
\* binding or a registered instance of its own.
C36_AliasBoundDisjoint ==
  DOMAIN aliases \cap (DOMAIN bindings \cup DOMAIN instances) = {}

\* A step in which the innermost defer() ends, by return or by exception.
DeferEnds == ops' = ops - 1 /\ last'.op \in {"defer_return", "defer_raise"}

\* The three fields are what they were when the innermost defer() was
\* called; once no defer() is running they are what __init__ set.
FieldsRestored ==
  /\ deferring_events' = frames[Len(frames)].was_deferring
  /\ deferred_events' = frames[Len(frames)].previous_deferred_events
  /\ events_to_defer' = frames[Len(frames)].previous_events_to_defer
  /\ (Len(frames) = 1)
       => (/\ deferring_events' = FALSE
           /\ deferred_events' = << >>
           /\ events_to_defer' = DeferAll)

\* C38: when defer() returns or raises (its callback or a listener
\* raised), deferring_events, deferred_events and events_to_defer are what
\* they were before the call; a defer() whose callback raised delivers
\* nothing, and none of its queued events is in a queue afterwards. A
\* listener is only ever reached by the payload of the dispatch being made
\* or, when a defer() returns, by the payloads of its own queue, and a
\* queue only ever gains the payload of the dispatch being made, so those
\* events are never delivered.
C38_DeferRestores ==
  [][/\ DeferEnds
          => (/\ FieldsRestored
              /\ PayloadsOf(deferred_events) \cap QueuedPayloads' = {})
     /\ (ops' = ops - 1 /\ last'.op = "defer_raise")
          => (delivered' = delivered)
     /\ \A j \in DOMAIN NewDeliveries :
          \/ NewDeliveries[j].payload > payloads
          \/ /\ last'.op = "defer_return"
             /\ NewDeliveries[j].payload \in PayloadsOf(deferred_events)
     /\ \A p \in QueuedPayloads' \ QueuedPayloads : p > payloads]_vars

\* C38 witness: an inner defer() has ended with the exception of a listener
\* reached while its queue was flushed, and the queue of the enclosing
\* defer() is back in place.
C38_Witness ==
  /\ last.op = "defer_return" /\ last.err = ListenerErr
  /\ Len(frames) = 1
  /\ deferring_events
  /\ deferred_events # << >>
  /\ delivered # << >>

\* The instances the callers of make(K) hold or were returned, with the
\* cached one.
InstancesOfK ==
  {threads[t].instance : t \in {u \in DOMAIN threads :
                                   threads[u].instance # NoneVal}}
    \cup {made[k] : k \in DOMAIN made \cap {"K"}}
    \cup {instances[k] : k \in DOMAIN instances \cap {"K"}}

\* C37 as stated: as long as no bind has dropped a cached instance of the
\* singleton K, every caller of make(K), interleaved or not, has one and the
\* same instance, so the concrete was built once.
C37_Original ==
  ("K" \notin invalidated) => Cardinality(InstancesOfK) <= 1

\* The steps of a caller t, and a make(K) that runs from start to end.
EnterNow(t) == t \notin DOMAIN threads /\ t \in DOMAIN threads'
BuildNow(t) ==
  /\ t \in DOMAIN threads /\ threads[t].pc = "build"
  /\ threads'[t].pc = "write"
WriteNow(t) ==
  /\ t \in DOMAIN threads /\ threads[t].pc = "write"
  /\ threads'[t].pc = "fire"
ReturnNow(t) ==
  /\ t \in DOMAIN threads /\ threads[t].pc = "fire"
  /\ threads'[t].pc = "done"
WholeMake == ops' = ops - 1 /\ threads' = threads /\ last'.op = "make"

\* C37, as the code has it: resolve() has no guard, so identity holds for
\* callers that run one at a time only. A make(K) that finds K in the
\* singleton cache returns the cached instance and builds nothing; a caller
\* that does its lookup while the cache is empty goes on to build, whatever
\* other callers are doing, builds an instance of its own, writes it over
\* whatever the cache holds, and returns it; so interleaved callers can
\* return different instances, the concrete is built once per caller that
\* passed the lookup, and the cache keeps the instance written last.
C37_Interleaved ==
  [][/\ \A t \in Callers :
          /\ (EnterNow(t) /\ "K" \in DOMAIN instances)
               => (/\ threads'[t].pc = "done"
                   /\ threads'[t].instance = instances["K"]
                   /\ last'.ret = instances["K"]
                   /\ nextId' = nextId)
          /\ (EnterNow(t) /\ "K" \notin DOMAIN instances
                /\ "K" \in DOMAIN bindings)
               => (threads'[t].pc = "build" /\ instances' = instances)
          /\ BuildNow(t)
               => (/\ threads'[t].instance.id = nextId
                   /\ nextId' = nextId + 1
                   /\ threads'[t].instance \notin InstancesOfK
                   /\ instances' = instances)
          /\ WriteNow(t)
               => (/\ "K" \in DOMAIN instances'
                   /\ instances'["K"] = threads[t].instance)
          /\ ReturnNow(t)
               => (/\ last'.op = "make" /\ last'.err = ""
                   /\ last'.ret = threads[t].instance
                   /\ instances' = instances)
     /\ (WholeMake /\ "K" \in DOMAIN instances)
          => (last'.ret = instances["K"] /\ nextId' = nextId
              /\ instances' = instances)
     /\ (WholeMake /\ "K" \notin DOMAIN instances /\ "K" \in DOMAIN bindings)
          => (/\ last'.ret.id = nextId
              /\ "K" \in DOMAIN instances'
              /\ instances'["K"] = last'.ret)]_vars

\* C37 witness: two callers of make(K) have passed the lookup before either
\* wrote the cache and have returned two instances; a later make(K) has
\* returned the one the cache holds.
C37_Witness ==
  /\ {1, 2} \subseteq DOMAIN threads
  /\ threads[1].pc = "done" /\ threads[2].pc = "done"
  /\ threads[1].instance # NoneVal /\ threads[2].instance # NoneVal
  /\ threads[1].instance # threads[2].instance
  /\ "K" \notin invalidated
  /\ "K" \in DOMAIN instances
  /\ instances["K"] \in {threads[1].instance, threads[2].instance}
  /\ last.op = "make" /\ last.how = "shared"
  /\ last.ret = instances["K"]

====
